---------------------------- MODULE Spec2Model ----------------------------
(***************************************************************************)
(* A model of the low level data model of kitty                           *)
(* (kitty/model/low_level/field.py and encoder.py): one field object, its *)
(* attributes, and the public operations mutate / skip / render / reset / *)
(* hash / set_session_data applied to it in any order.                    *)
(*                                                                         *)
(* A python str is a sequence of byte values 0..255, a bitstring.Bits is  *)
(* a sequence of bits 0/1 (most significant bit of a byte first).  An     *)
(* object is a record of its attributes; a method is an operator from the *)
(* object to [obj |-> the object afterwards, ret |-> the value returned]. *)
(***************************************************************************)
EXTENDS Integers, Sequences, FiniteSets, TLC

(***************************************************************************)
(* Bounds of the model                                                     *)
(***************************************************************************)
\* largest count handed to skip() besides "more than everything"
MaxSkip == 2

\* max_size of the String fields under test
MaxSize == 2

\* length in bits of the BitField and Size fields under test
BitFieldLength == 3

\* num_mutations of the RandomBits and RandomBytes fields under test
RandomMutations == 3

\* the greatest length in bits of the values handed to the bits encoders
MaxBits == 12

\* the number of mutations of the model of a fuzzing session
MaxMutations == 4

\* the number of calls of get_mutation in a fuzzing session
MaxCalls == 3

\* the greatest index written in a range string or given to a StartEndList
MaxIndex == 3

(***************************************************************************)
(* python / bitstring primitives                                           *)
(***************************************************************************)
Min(a, b) == IF a < b THEN a ELSE b

Max(a, b) == IF a > b THEN a ELSE b

\* None
None == <<>>

\* a power of two, 2 ** n
RECURSIVE Pow2(_)
Pow2(n) == IF n <= 0 THEN 1 ELSE 2 * Pow2(n - 1)

\* str * n (and Bits * n): n copies of s
RECURSIVE Repeat(_, _)
Repeat(s, n) ==
    IF n <= 0 THEN <<>>
    ELSE IF n = 1 THEN s
    ELSE LET h == Repeat(s, n \div 2)
         IN  IF n % 2 = 0 THEN h \o h ELSE h \o h \o s

\* Bits(uint=v, length=n): the n low bits of v >= 0, most significant first
UintBits(v, n) == [i \in 1..n |-> (v \div Pow2(n - i)) % 2]

\* Bits(bytes=s)
BitsFromBytes(s) ==
    [i \in 1..(8 * Len(s)) |-> (s[((i - 1) \div 8) + 1] \div Pow2(7 - ((i - 1) % 8))) % 2]

\* Bits(n): n zero bits
ZeroBits(n) == [i \in 1..n |-> 0]

\* a ^ b on two Bits of the same length
BitsXor(a, b) == [i \in 1..Len(a) |-> (a[i] + b[i]) % 2]

\* b[:n]
BitsPrefix(b, n) == SubSeq(b, 1, Min(n, Len(b)))

\* python's a ^ (1 << i) on an int a of either sign (two's complement)
XorBit(a, i) ==
    LET p   == Pow2(i)
        u   == IF a >= 0 THEN a ELSE -a - 1
        fl  == IF (u \div p) % 2 = 1 THEN u - p ELSE u + p
    IN  IF a >= 0 THEN fl ELSE -fl - 1

(***************************************************************************)
(* random.Random: a seeded generator.  Only its being a deterministic     *)
(* function of the seed and of the number of draws is modelled: the state *)
(* is that of a linear congruential generator.                            *)
(***************************************************************************)
Random_seed(seed) == seed % 65537

Random_next(st) == (75 * st + 74) % 65537

\* randint(a, b) drawn from state st (after the draw the state is Random_next(st))
Random_randint(st, a, b) == a + (Random_next(st) % (b - a + 1))

\* n draws of randint(0, 255), and the state afterwards
RECURSIVE Random_bytes(_, _)
Random_bytes(st, n) ==
    IF n <= 0 THEN [st |-> st, bytes |-> <<>>]
    ELSE LET r == Random_bytes(Random_next(st), n - 1)
         IN  [st |-> r.st, bytes |-> <<Random_randint(st, 0, 255)>> \o r.bytes]

(***************************************************************************)
(* kitty.core.khash: a hash of its arguments.  It is modelled as the      *)
(* serialisation of the arguments (no collisions): an argument is a tag   *)
(* followed by its content.                                               *)
(***************************************************************************)
\* the type names handed to khash by BaseField.hash
TypeId(kind) ==
    CASE kind = "Static" -> 1
      [] kind = "String" -> 2
      [] kind = "Delimiter" -> 3
      [] kind = "BitField" -> 4
      [] kind = "Group" -> 5
      [] kind = "Dynamic" -> 6
      [] kind = "RandomBits" -> 7
      [] kind = "RandomBytes" -> 8
      [] kind = "Size" -> 9

HNone == <<0>>

HInt(v) == <<1, v>>

HBool(b) == <<2, IF b THEN 1 ELSE 0>>

HSeq(s) == <<3, Len(s)>> \o s

HType(kind) == <<4, TypeId(kind)>>

\* a list of python strs (the frozenset of Group.hash, in the order given)
RECURSIVE HSeqs(_)
HSeqs(l) == IF Len(l) = 0 THEN <<5>> ELSE HSeq(Head(l)) \o HSeqs(Tail(l))

\* an optional int: None is <<>> and the int v is <<v>>
HOpt(v) == IF Len(v) = 0 THEN HNone ELSE HInt(v[1])

RECURSIVE Flatten(_)
Flatten(args) == IF Len(args) = 0 THEN <<>> ELSE Head(args) \o Flatten(Tail(args))

khash(args) == <<Len(args)>> \o Flatten(args)


(***************************************************************************)
(* Encoders (encoder.py)                                                   *)
(***************************************************************************)
\* what a failed encode() leaves in place of a Bits: the exception raised
EncodeError == <<2>>

\* StrEncoder.encode (ENC_STR_DEFAULT)
StrEncoder_encode(value) == BitsFromBytes(value)

\* BitFieldBinEncoder.encode with mode '' (ENC_INT_DEFAULT = ENC_INT_BIN):
\* Bits('uint:L=v') / Bits('int:L=v'), which raises when v does not fit
BitFieldBinEncoder_encode(value, length, signed) ==
    LET lo == IF signed THEN -Pow2(length - 1) ELSE 0
        hi == IF signed THEN Pow2(length - 1) - 1 ELSE Pow2(length) - 1
    IN  IF value < lo \/ value > hi THEN EncodeError
        ELSE UintBits(IF value < 0 THEN value + Pow2(length) ELSE value, length)

\* what an encode() that raises KittyException leaves in place of a Bits
KittyException == <<4>>

\* the loop of BitFieldMultiByteEncoder.encode: `while value:`
RECURSIVE BitFieldMultiByteEncoder_loop(_, _)
\* a loop that leaves the top bit of the bytes it prepends clear
BitFieldMultiByteEncoder_loop_unflagged(value, multi_bytes) ==
    IF value /= 0
    THEN BitFieldMultiByteEncoder_loop(value \div 128, <<value % 128>> \o multi_bytes)
    ELSE multi_bytes

BitFieldMultiByteEncoder_loop(value, multi_bytes) ==
    IF value /= 0
    THEN BitFieldMultiByteEncoder_loop(value \div 128,
                                       <<128 + (value % 128)>> \o multi_bytes)
    ELSE multi_bytes

\* BitFieldMultiByteEncoder.encode; mode is self._mode, 'be' or 'le'
BitFieldMultiByteEncoder_encode(mode, value, length, signed) ==
    IF signed THEN KittyException
    ELSE BitsFromBytes(BitFieldMultiByteEncoder_loop(value \div 128, <<value % 128>>))

\* BitsEncoder.encode (ENC_BITS_DEFAULT = ENC_BITS_NONE)
BitsEncoder_encode(value) == value

\* ByteAlignedBitsEncoder.encode (ENC_BITS_BYTE_ALIGNED): Bits(n) is n zero bits
ByteAlignedBitsEncoder_encode(value) ==
    IF Len(value) % 8 /= 0 THEN value \o ZeroBits(Len(value) % 8) ELSE value

(***************************************************************************)
(* The mutation libraries                                                  *)
(***************************************************************************)
\* gen_power_list(val, min_power=0, max_power)
gen_power_list(val, max_power) == [i \in 1..(max_power + 1) |-> Repeat(val, Pow2(i - 1))]

\* the concatenation of a list of lists
RECURSIVE Extend(_)
Extend(ls) == IF Len(ls) = 0 THEN <<>> ELSE Head(ls) \o Extend(Tail(ls))

\* String._get_local_lib
String_get_local_lib(default_value) ==
    Extend([k \in 1..3 |->
              LET i == <<2, 10, 100>>[k]
              IN  <<Repeat(default_value, i), Repeat(default_value, i) \o <<254>> >>])
    \o << <<0>> \o default_value, default_value \o <<0>> >>

\* String._add_strings_from_file('./kitty_strings.txt') when the file is absent
String_add_strings_from_file == <<>>

\* String._get_class_lib
String_get_class_lib ==
    << <<>> >>
    \* format strings: '%s', '%%s', '"%s"', '%n', '%%n', '"%n"', '\r\n', '\n'
    \o Extend([k \in 1..8 |->
                gen_power_list(<< <<37, 115>>, <<37, 37, 115>>, <<34, 37, 115, 34>>,
                                  <<37, 110>>, <<37, 37, 110>>, <<34, 37, 110, 34>>,
                                  <<13, 10>>, <<10>> >>[k], 10)])
    \* '\x00', '\xde\xad\xbe\xef'
    \o Extend([k \in 1..2 |-> gen_power_list(<< <<0>>, <<222, 173, 190, 239>> >>[k], 13)])
    \o <<
   \* '|touch /tmp/KITTY'
   <<124, 116, 111, 117, 99, 104, 32, 47, 116, 109, 112, 47, 75, 73, 84, 84, 89>>,
   \* ';touch /tmp/KITTY;'
   <<59, 116, 111, 117, 99, 104, 32, 47, 116, 109, 112, 47, 75, 73, 84, 84, 89, 59>>,
   \* ';ls>/tmp/KITTY'
   <<59, 108, 115, 62, 47, 116, 109, 112, 47, 75, 73, 84, 84, 89>>,
   \* '";ls>/tmp/KITTY;ls>"/dev/null"'
   <<34, 59, 108, 115, 62, 47, 116, 109, 112, 47, 75, 73, 84, 84, 89, 59, 108, 115, 62, 34, 47, 100, 101, 118, 47, 110, 117, 108, 108, 34>>,
   \* "';ls>/tmp/KITTY;ls>'/dev/null'"
   <<39, 59, 108, 115, 62, 47, 116, 109, 112, 47, 75, 73, 84, 84, 89, 59, 108, 115, 62, 39, 47, 100, 101, 118, 47, 110, 117, 108, 108, 39>>,
   \* '|notepad'
   <<124, 110, 111, 116, 101, 112, 97, 100>>,
   \* ';notepad;'
   <<59, 110, 111, 116, 101, 112, 97, 100, 59>>,
   \* '\nnotepad\n'
   <<10, 110, 111, 116, 101, 112, 97, 100, 10>>,
   \* '1;SELECT%20*'
   <<49, 59, 83, 69, 76, 69, 67, 84, 37, 50, 48, 42>>,
   \* "'sqlattempt1"
   <<39, 115, 113, 108, 97, 116, 116, 101, 109, 112, 116, 49>>,
   \* '(sqlattempt2)'
   <<40, 115, 113, 108, 97, 116, 116, 101, 109, 112, 116, 50, 41>>,
   \* 'OR%201=1'
   <<79, 82, 37, 50, 48, 49, 61, 49>>,
   \* '/.:/' + 'A' * 5000 + '\x00\x00'
   <<47, 46, 58, 47>> \o Repeat(<<65>>, 5000) \o <<0, 0>>,
   \* '/.../' + 'A' * 5000 + '\x00\x00'
   <<47, 46, 46, 46, 47>> \o Repeat(<<65>>, 5000) \o <<0, 0>>,
   \* '/.../.../.../.../.../.../.../.../.../.../'
   <<47, 46, 46, 46, 47, 46, 46, 46, 47, 46, 46, 46, 47, 46, 46, 46, 47, 46, 46, 46, 47, 46, 46, 46, 47, 46, 46, 46, 47, 46, 46, 46, 47, 46, 46, 46, 47, 46, 46, 46, 47>>,
   \* '/../../../../../../../../../../../../etc/passwd'
   <<47, 46, 46, 47, 46, 46, 47, 46, 46, 47, 46, 46, 47, 46, 46, 47, 46, 46, 47, 46, 46, 47, 46, 46, 47, 46, 46, 47, 46, 46, 47, 46, 46, 47, 46, 46, 47, 101, 116, 99, 47, 112, 97, 115, 115, 119, 100>>,
   \* '/../../../../../../../../../../../../boot.ini'
   <<47, 46, 46, 47, 46, 46, 47, 46, 46, 47, 46, 46, 47, 46, 46, 47, 46, 46, 47, 46, 46, 47, 46, 46, 47, 46, 46, 47, 46, 46, 47, 46, 46, 47, 46, 46, 47, 98, 111, 111, 116, 46, 105, 110, 105>>,
   \* '..:..:..:..:..:..:..:..:..:..:..:..:..:'
   <<46, 46, 58, 46, 46, 58, 46, 46, 58, 46, 46, 58, 46, 46, 58, 46, 46, 58, 46, 46, 58, 46, 46, 58, 46, 46, 58, 46, 46, 58, 46, 46, 58, 46, 46, 58, 46, 46, 58>>,
   \* '\\\\*'
   <<92, 92, 42>>,
   \* '\\\\?\\'
   <<92, 92, 63, 92>> >>
    \* '/\\' and '/.'
    \o gen_power_list(<<47, 92>>, 9)
    \o gen_power_list(<<47, 46>>, 9)
    \o <<
   \* '!@#$%%^#$%#$@#$%$$@#$%^^**(()'
   <<33, 64, 35, 36, 37, 37, 94, 35, 36, 37, 35, 36, 64, 35, 36, 37, 36, 36, 64, 35, 36, 37, 94, 94, 42, 42, 40, 40, 41>>,
   \* '%01%02%03%04%0a%0d%0aADSF'
   <<37, 48, 49, 37, 48, 50, 37, 48, 51, 37, 48, 52, 37, 48, 97, 37, 48, 100, 37, 48, 97, 65, 68, 83, 70>>,
   \* '%01%02%03@%04%0a%0d%0aADSF'
   <<37, 48, 49, 37, 48, 50, 37, 48, 51, 64, 37, 48, 52, 37, 48, 97, 37, 48, 100, 37, 48, 97, 65, 68, 83, 70>>,
   \* '/%00/'
   <<47, 37, 48, 48, 47>>,
   \* '%00/'
   <<37, 48, 48, 47>>,
   \* '%00'
   <<37, 48, 48>>,
   \* '%u0000'
   <<37, 117, 48, 48, 48, 48>>,
   \* '%\xfe\xf0%\x00\xff'
   <<37, 254, 240, 37, 0, 255>> >>
    \* '%\xfe\xf0%\x01\xff'
    \o gen_power_list(<<37, 254, 240, 37, 1, 255>>, 5)
    \o String_add_strings_from_file

\* Delimiter._get_class_lib
Delimiter_get_class_lib ==
    LET delims == <<32, 9, 33, 64, 35, 36, 37, 94, 38, 42, 40, 41, 45, 95, 43, 61,
                    58, 59, 39, 34, 47, 92, 63, 60, 62, 46, 44, 13, 10>>
    IN  Extend([k \in 1..Len(delims) |-> gen_power_list(<<delims[k]>>, 2)])
        \o gen_power_list(<<13, 10>>, 3)
        \o gen_power_list(<<9, 13, 10>>, 3)
        \o << <<>> >>

\* BitField._get_local_lib: lambda x, i=i: x._default_value ^ (1 << i)
BitField_get_local_lib(length) == [k \in 1..length |-> [f |-> "flip", i |-> k - 1, s |-> 0]]

\* the lines of ./kitty_integers.txt when the file is present, as integers:
\* those that BitFieldTests.testIntsFromFile writes, but for 0xffffffff, which
\* no field of the lengths checked here can hold
kitty_integers == <<-345345, 123, 0, 333, 56>>

\* BitField._add_ints_from_file: one function `lambda _: i` per line
BitField_add_ints_from_file(lines) ==
    [k \in 1..Len(lines) |-> [f |-> "int", i |-> lines[k], s |-> 0]]

\* the end of BitField._get_class_lib: `self._add_ints_from_file(...)` is a
\* statement of its own, so that the list it returns (ints) is not added to
\* lib, and `return lib`
BitField_get_class_lib_return(lib, ints) == lib

\* BitField._get_class_lib
BitField_get_class_lib ==
    BitField_get_class_lib_return(
        Extend([k \in 1..5 |->
                  << [f |-> "min_plus", i |-> k - 1, s |-> 0],
                     [f |-> "max_minus", i |-> k - 1, s |-> 0] >>
                  \o Extend([s \in 1..3 |->
                               << [f |-> "section_plus", i |-> k - 1, s |-> s],
                                  [f |-> "section_minus", i |-> k - 1, s |-> s] >>])])
        \o Extend([i \in 1..4 |->
                     << [f |-> "default_plus", i |-> i, s |-> 0],
                        [f |-> "default_minus", i |-> i, s |-> 0] >>]),
        BitField_add_ints_from_file(kitty_integers))

\* the lambdas of the BitField libraries applied to the field x
BitField_lib_func(e, x) ==
    CASE e.f = "flip" -> XorBit(x.default_value, e.i)
      [] e.f = "min_plus" -> x.min_value + e.i
      [] e.f = "max_minus" -> x.max_value - e.i
      [] e.f = "section_plus" -> x.max_value - (x.max_min_diff \div 4) * e.s + e.i
      [] e.f = "section_minus" -> x.max_value - (x.max_min_diff \div 4) * e.s - e.i
      [] e.f = "default_plus" -> x.default_value + e.i
      [] e.f = "default_minus" -> x.default_value - e.i
      [] e.f = "int" -> e.i

\* cls.lib, the library shared by the instances of a class (_wrap_get_class_lib)
wrap_get_class_lib(kind) ==
    CASE kind = "String" -> String_get_class_lib
      [] kind = "Delimiter" -> Delimiter_get_class_lib
      [] kind = "BitField" -> BitField_get_class_lib
      [] kind = "Group" -> <<>>

(***************************************************************************)
(* _MultiListAccessor: the local list and the class list as one list, with *)
(* a set of (raw) indices to skip.  The accessor of an object is the       *)
(* record [local, to_skip]; its second list is the library of the class.   *)
(***************************************************************************)
\* _MultiListAccessor._size after the two add_list calls
Accessor_raw_size(kind, lib) == Len(lib.local) + Len(wrap_get_class_lib(kind))

\* _MultiListAccessor.size
Accessor_size(kind, lib) == Accessor_raw_size(kind, lib) - Cardinality(lib.to_skip)

\* the while loop of _MultiListAccessor.get
RECURSIVE Accessor_raw_index(_, _, _)
Accessor_raw_index(to_skip, old_idx, idx) ==
    IF old_idx = idx THEN idx
    ELSE Accessor_raw_index(to_skip, idx,
             idx + Cardinality(to_skip \cap ((old_idx + 1)..idx)))

\* the end of _MultiListAccessor.get: the item at index idx of the lists laid
\* end to end
Accessor_item(kind, local, idx) ==
    IF idx < Len(local) THEN local[idx + 1]
    ELSE wrap_get_class_lib(kind)[idx - Len(local) + 1]

\* _MultiListAccessor.get (the index is in range wherever the model calls it)
Accessor_get(kind, lib, idx) ==
    Accessor_item(kind, lib.local, Accessor_raw_index(lib.to_skip, -1, idx))

(***************************************************************************)
(* BaseField                                                               *)
(***************************************************************************)
\* the names of the classes, by family
LibraryKinds == {"String", "Delimiter", "BitField", "Group"}

RandomKinds == {"RandomBits", "RandomBytes"}

CalculatedKinds == {"Size", "ElementCount"}

\* BaseField._encode_value, overridden by BitField._encode_value
encode_value(f, value) ==
    CASE f.kind = "BitField" -> BitFieldBinEncoder_encode(value, f.length, f.signed)
      [] f.kind = "RandomBits" ->
           IF f.encoder = "ENC_BITS_BYTE_ALIGNED" THEN ByteAlignedBitsEncoder_encode(value)
           ELSE BitsEncoder_encode(value)
      [] f.kind \in CalculatedKinds -> BitsEncoder_encode(value)
      [] OTHER -> StrEncoder_encode(value)

\* BaseField.__init__ on an object whose subclass attributes are those of self
BaseField_init(self, value, fuzzable) ==
    [ num_mutations    |-> 0,
      fuzzable         |-> fuzzable,
      default_value    |-> value,
      default_rendered |-> encode_value(self, value),
      current_value    |-> value,
      current_rendered |-> encode_value(self, value),
      current_index    |-> -1,
      initialized      |-> FALSE,
      hash             |-> None ] @@ self

\* BaseField._mutating
mutating(f) == f.current_index /= -1

\* BaseField.set_current_value
set_current_value(f, value) ==
    [f EXCEPT !.current_value = value, !.current_rendered = encode_value(f, value)]

\* BaseField.num_mutations
num_mutations(f) == IF f.fuzzable THEN f.num_mutations ELSE 0

\* BaseField._last_index
last_index(f) == num_mutations(f) - 1

\* an _exhausted that lets one more mutation through
exhausted_late(f) == f.current_index > last_index(f)

\* BaseField._exhausted
exhausted(f) == f.current_index >= last_index(f)

\* a reset that rewinds the index and keeps the current value and rendering
BaseField_reset_index_only(f) == [f EXCEPT !.current_index = -1]

\* BaseField.reset
BaseField_reset(f) ==
    [f EXCEPT !.current_index = -1,
              !.current_value = f.default_value,
              !.current_rendered = f.default_rendered]

\* RandomBits.reset and RandomBytes.reset
Random_reset(f) == [BaseField_reset(f) EXCEPT !.random = Random_seed(f.seed)]

\* CalculatedInt.reset
CalculatedInt_reset(f) == [BaseField_reset(f) EXCEPT !.first_render = FALSE]

\* reset(), by class
reset(f) ==
    CASE f.kind \in RandomKinds -> Random_reset(f)
      [] f.kind \in CalculatedKinds -> CalculatedInt_reset(f)
      [] OTHER -> BaseField_reset(f)

\* BaseField.is_default, overridden by Dynamic and Calculated
is_default(f) ==
    IF f.kind = "Dynamic" \/ f.kind \in CalculatedKinds THEN FALSE ELSE ~mutating(f)

(***************************************************************************)
(* _LibraryField and its subclasses                                        *)
(***************************************************************************)
\* an iteration that also suppresses the entries of exactly max_size bytes
String_filter_step_off_by_one(f, lib, i) ==
    IF Len(Accessor_get(f.kind, lib, i)) >= f.max_size[1]
    THEN [lib EXCEPT !.to_skip = @ \cup {i}] ELSE lib

\* one iteration of the loop of String._filter_lib
String_filter_step(f, lib, i) ==
    IF Len(Accessor_get(f.kind, lib, i)) > f.max_size[1]
    THEN [lib EXCEPT !.to_skip = @ \cup {i}] ELSE lib

\* the loop of String._filter_lib over the indices hi down to lo: the
\* iterations for the upper half of the range, and after them (the test on
\* the cardinality only orders the evaluation) those for the lower half
RECURSIVE String_filter_loop(_, _, _, _)
String_filter_loop(f, lib, hi, lo) ==
    IF hi < lo THEN lib
    ELSE IF hi = lo THEN String_filter_step(f, lib, hi)
    ELSE LET mid   == (hi + lo) \div 2
             upper == String_filter_loop(f, lib, hi, mid + 1)
         IN  IF Cardinality(upper.to_skip) >= 0
             THEN String_filter_loop(f, upper, mid, lo)
             ELSE upper

\* String._filter_lib
String_filter_lib(f, lib) ==
    IF Len(f.max_size) /= 0
    THEN String_filter_loop(f, lib, Accessor_size(f.kind, lib) - 1, 0)
    ELSE lib

\* the loop of BitField._filter_lib, from index i down to 0; vals are the
\* results kept so far, and res is the result at index i
RECURSIVE BitField_filter_loop(_, _, _, _)
\* a loop body that suppresses the duplicates only
BitField_filter_step_duplicates(f, lib, vals, i, res) ==
    IF res \in vals
    THEN BitField_filter_loop(f, [lib EXCEPT !.to_skip = @ \cup {i}], vals, i - 1)
    ELSE BitField_filter_loop(f, lib, vals \cup {res}, i - 1)

BitField_filter_step(f, lib, vals, i, res) ==
    IF res \in vals \/ res < f.min_value \/ res > f.max_value
    THEN BitField_filter_loop(f, [lib EXCEPT !.to_skip = @ \cup {i}], vals, i - 1)
    ELSE BitField_filter_loop(f, lib, vals \cup {res}, i - 1)

BitField_filter_loop(f, lib, vals, i) ==
    IF i < 0 THEN lib
    ELSE BitField_filter_step(f, lib, vals, i,
                              BitField_lib_func(Accessor_get(f.kind, lib, i), f))

\* BitField._filter_lib
BitField_filter_lib(f, lib) == BitField_filter_loop(f, lib, {}, Accessor_size(f.kind, lib) - 1)

\* _get_local_lib, by class
get_local_lib(f) ==
    CASE f.kind \in {"String", "Delimiter"} -> String_get_local_lib(f.default_value)
      [] f.kind = "BitField" -> BitField_get_local_lib(f.length)
      [] f.kind = "Group" -> f.values

\* _filter_lib, by class
filter_lib(f, lib) ==
    CASE f.kind \in {"String", "Delimiter"} -> String_filter_lib(f, lib)
      [] f.kind = "BitField" -> BitField_filter_lib(f, lib)
      [] OTHER -> lib

\* the end of _LibraryField._init, lib being the filtered library
LibraryField_set_lib(f, lib) ==
    [f EXCEPT !.lib = lib, !.num_mutations = Accessor_size(f.kind, lib)]

\* _LibraryField._init
LibraryField_init(f) ==
    LibraryField_set_lib(f, filter_lib(f, [local |-> get_local_lib(f), to_skip |-> {}]))

\* the assignment of _LibraryField._mutate and BitField._mutate, e being the
\* library entry at the current index
LibraryField_set_value(f, e) ==
    [f EXCEPT !.current_value = IF f.kind = "BitField" THEN BitField_lib_func(e, f) ELSE e]

\* _LibraryField._mutate and BitField._mutate
LibraryField_mutate(f) ==
    LibraryField_set_value(f, Accessor_get(f.kind, f.lib, f.current_index))

(***************************************************************************)
(* RandomBits, RandomBytes, CalculatedInt: _mutate                         *)
(***************************************************************************)
\* `if self._step:` a step that is neither None nor 0
has_step(f) == Len(f.step) /= 0 /\ f.step[1] /= 0

\* RandomBits._mutate
RandomBits_mutate(f) ==
    LET length == IF has_step(f) THEN f.min_length + f.step[1] * f.current_index
                  ELSE Random_randint(f.random, f.min_length, f.max_length)
        st     == IF has_step(f) THEN f.random ELSE Random_next(f.random)
        r      == Random_bytes(st, (length \div 8) + 1)
    IN  [f EXCEPT !.random = r.st,
                  !.current_value = BitsPrefix(BitsFromBytes(r.bytes), length)]

\* RandomBytes._mutate
RandomBytes_mutate(f) ==
    LET length == IF has_step(f) THEN f.min_length + f.step[1] * f.current_index
                  ELSE Random_randint(f.random, f.min_length, f.max_length)
        st     == IF has_step(f) THEN f.random ELSE Random_next(f.random)
        r      == Random_bytes(st, length)
    IN  [f EXCEPT !.random = r.st, !.current_value = r.bytes]

\* CalculatedInt._mutate
CalculatedInt_mutate(f) == [f EXCEPT !.first_render = TRUE]

\* _mutate, by class
do_mutate(f) ==
    CASE f.kind \in LibraryKinds -> LibraryField_mutate(f)
      [] f.kind = "RandomBits" -> RandomBits_mutate(f)
      [] f.kind = "RandomBytes" -> RandomBytes_mutate(f)
      [] f.kind \in CalculatedKinds -> CalculatedInt_mutate(f)
      [] OTHER -> f

(***************************************************************************)
(* hash and _initialize                                                    *)
(***************************************************************************)
\* the default value as an argument of khash
HDefault(f) == IF f.kind = "BitField" THEN HInt(f.default_value) ELSE HSeq(f.default_value)

\* khash(type(self).__name__, self._default_value, self._fuzzable)
BaseField_khash(f) == khash(<<HType(f.kind), HDefault(f), HBool(f.fuzzable)>>)

\* the hash() of a subclass, given what super().hash() returned
subclass_hash(f, hashed) ==
    CASE f.kind \in {"String", "Delimiter"} -> khash(<<HSeq(hashed), HOpt(f.max_size)>>)
      [] f.kind = "BitField" ->
           khash(<<HSeq(hashed), HInt(f.length), HBool(f.signed),
                   HInt(f.min_value), HInt(f.max_value)>>)
      [] f.kind = "Group" -> khash(<<HSeq(hashed), HSeqs(f.values)>>)
      [] f.kind = "Dynamic" -> khash(<<HSeq(hashed), HSeq(f.key), HOpt(f.length)>>)
      [] f.kind \in RandomKinds ->
           khash(<<HSeq(hashed), HInt(f.min_length), HInt(f.max_length),
                   HInt(f.num_mutations), HOpt(f.step), HInt(f.seed)>>)
      [] f.kind \in CalculatedKinds -> khash(<<HSeq(hashed), HOpt(f.field_name)>>)
      [] OTHER -> hashed

\* the body of `if self._hash is None` in BaseField.hash, after _initialize()
BaseField_hash_store(g) ==
    [obj |-> [g EXCEPT !.hash = BaseField_khash(g)], ret |-> BaseField_khash(g)]

\* BaseField.hash on an object whose _initialize() returns at once
BaseField_hash_initialized(f) ==
    IF f.hash = None THEN BaseField_hash_store(f) ELSE [obj |-> f, ret |-> f.hash]

\* the hash() of a subclass around the call r of super().hash()
subclass_hash_of(r) == [obj |-> r.obj, ret |-> subclass_hash(r.obj, r.ret)]

\* self.hash() on an object whose _initialize() returns at once
hash_initialized(f) == subclass_hash_of(BaseField_hash_initialized(f))

\* _init, by class: BaseField._init is self.reset()
do_init(f) == IF f.kind \in LibraryKinds THEN LibraryField_init(f) ELSE reset(f)

\* `self._hash = self.hash()` in BaseField._initialize, r being the call
BaseField_initialize_hash(r) == [r.obj EXCEPT !.hash = r.ret]

\* BaseField._initialize
BaseField_initialize(f) ==
    IF f.initialized THEN f
    ELSE BaseField_initialize_hash(
             hash_initialized([do_init(f) EXCEPT !.initialized = TRUE]))

\* Calculated._initialize: the field depended on is resolved each time
Calculated_initialize(f) == f

\* _initialize, by class
initialize(f) ==
    IF f.kind \in CalculatedKinds THEN Calculated_initialize(f) ELSE BaseField_initialize(f)

\* a hash that computes the value and does not store it in _hash
BaseField_hash_forgetful(f) ==
    IF f.hash = None
    THEN LET g == initialize(f)
         IN  [obj |-> g, ret |-> BaseField_khash(g)]
    ELSE [obj |-> f, ret |-> f.hash]

\* BaseField.hash
BaseField_hash(f) ==
    IF f.hash = None THEN BaseField_hash_store(initialize(f))
    ELSE [obj |-> f, ret |-> f.hash]

\* hash(), by class
hash(f) == subclass_hash_of(BaseField_hash(f))

(***************************************************************************)
(* mutate, skip, render, set_session_data                                  *)
(***************************************************************************)
\* BaseField.mutate after self._initialize()
BaseField_mutate_initialized(g) ==
    IF exhausted(g) THEN [obj |-> g, ret |-> FALSE]
    ELSE [obj |-> do_mutate([g EXCEPT !.current_index = @ + 1]), ret |-> TRUE]

\* BaseField.mutate
BaseField_mutate(f) == BaseField_mutate_initialized(initialize(f))

\* mutate(), which no class overrides
mutate(f) == BaseField_mutate(f)

\* the loop of BaseField.skip: `left` iterations to go, `skipped` so far, and
\* in its body r is the call of mutate()
RECURSIVE BaseField_skip_loop(_, _, _)
BaseField_skip_step(r, left, skipped) ==
    IF r.ret THEN BaseField_skip_loop(r.obj, left - 1, skipped + 1)
    ELSE [obj |-> r.obj, ret |-> skipped]

BaseField_skip_loop(f, left, skipped) ==
    IF left <= 0 THEN [obj |-> f, ret |-> skipped]
    ELSE BaseField_skip_step(mutate(f), left, skipped)

\* BaseField.skip
BaseField_skip(f, count) == BaseField_skip_loop(f, count, 0)

\* the advance of _LibraryField.skip and Dynamic.skip by `skipped`
skip_advance(g, skipped) ==
    [obj |-> [g EXCEPT !.current_index = @ + skipped], ret |-> skipped]

\* _LibraryField.skip after self._initialize()
LibraryField_skip_initialized(g, count) ==
    IF ~exhausted(g)
    THEN skip_advance(g, Min(count, last_index(g) - g.current_index))
    ELSE [obj |-> g, ret |-> 0]

\* a skip that adds count to the index without looking at what remains
LibraryField_skip_unbounded(f, count) == skip_advance(initialize(f), count)

\* _LibraryField.skip
LibraryField_skip(f, count) == LibraryField_skip_initialized(initialize(f), count)

\* a skip that stops one mutation short of what remains
Dynamic_skip_short(f, count) ==
    LET g == initialize(f)
    IN  IF ~exhausted(g)
        THEN LET skipped == Min(count, num_mutations(g) - g.current_index - 2)
             IN  [obj |-> [g EXCEPT !.current_index = @ + skipped], ret |-> skipped]
        ELSE [obj |-> g, ret |-> 0]

\* Dynamic.skip after self._initialize()
Dynamic_skip_initialized(g, count) ==
    IF ~exhausted(g)
    THEN skip_advance(g, Min(count, num_mutations(g) - g.current_index - 1))
    ELSE [obj |-> g, ret |-> 0]

\* Dynamic.skip
Dynamic_skip(f, count) == Dynamic_skip_initialized(initialize(f), count)

\* skip(count), by class
skip(f, count) ==
    CASE f.kind \in LibraryKinds -> LibraryField_skip(f, count)
      [] f.kind = "Dynamic" -> Dynamic_skip(f, count)
      [] OTHER -> BaseField_skip(f, count)

\* `return self._current_rendered`
return_current_rendered(h) == [obj |-> h, ret |-> h.current_rendered]

\* BaseField.render after self._initialize()
BaseField_render_initialized(g) ==
    return_current_rendered(IF ~is_default(g)
             THEN [g EXCEPT !.current_rendered = encode_value(g, g.current_value)]
             ELSE g)

\* BaseField.render
BaseField_render(f) == BaseField_render_initialized(initialize(f))

\* Dynamic.render after self._initialize()
Dynamic_render_initialized(g) ==
    return_current_rendered(IF mutating(g)
             THEN [g EXCEPT !.current_rendered =
                       BitsXor(@, UintBits(Pow2(g.current_index), g.length[1] * 8))]
             ELSE g)

\* Dynamic.render
Dynamic_render(f) == Dynamic_render_initialized(initialize(f))

\* Size: the default calc_func, lambda x: len(x) / 8
Size_calc_func(x) == Len(x) \div 8

\* CalculatedInt._calculate_value: self._calc_func(self._rendered_field)
CalculatedInt_calculate_value(f) == Size_calc_func(f.rendered_field)

\* a calculated value handed on as it is
CalculatedInt_overflow_unhandled(f, calculated_value) == calculated_value

\* the two lines of CalculatedInt._render "meant for handling overflow"
CalculatedInt_handle_overflow(f, calculated_value) ==
    Max(Min(calculated_value, f.bit_field.max_value), f.bit_field.min_value)

\* what CalculatedInt._render does to self._bit_field
CalculatedInt_bit_field(f, calculated_value) ==
    IF mutating(f)
    THEN IF f.first_render
         THEN BaseField_mutate([f.bit_field EXCEPT !.default_value = calculated_value]).obj
         ELSE f.bit_field
    ELSE set_current_value(f.bit_field, calculated_value)

\* the end of CalculatedInt._render, r being the call self._bit_field.render()
CalculatedInt_set_rendered(f, r) ==
    set_current_value([f EXCEPT !.bit_field = r.obj,
                                !.first_render = IF mutating(f) THEN FALSE ELSE @],
                      r.ret)

\* CalculatedInt._render after `calculated_value = self._calculate_value()`
CalculatedInt_render_value(f, calculated_value) ==
    CalculatedInt_set_rendered(f,
        BaseField_render(CalculatedInt_bit_field(f,
            CalculatedInt_handle_overflow(f, calculated_value))))

\* CalculatedInt._render
CalculatedInt_render(f) == CalculatedInt_render_value(f, CalculatedInt_calculate_value(f))

\* an in-render value without bits, as that of Clone
CalculatedInt_in_render_empty(f) == <<>>

\* CalculatedInt._in_render_value
CalculatedInt_in_render_value(f) == ZeroBits(Len(BaseField_render(f.bit_field).ret))

\* `self._rendered_field = self._field.render(ctx)`, d being the call
Calculated_set_rendered_field(g, d) == [g EXCEPT !.field = d.obj, !.rendered_field = d.ret]

\* Calculated.render; in_ctx is `self in ctx`, false for a call from outside
\* a render.  The field depended on is a Static or a String, rendered by
\* BaseField.render.
Calculated_render(f, in_ctx) ==
    IF in_ctx
    THEN return_current_rendered([Calculated_initialize(f) EXCEPT
                       !.current_rendered = CalculatedInt_in_render_value(f)])
    ELSE return_current_rendered(CalculatedInt_render(
             Calculated_set_rendered_field(Calculated_initialize(f),
                                           BaseField_render(f.field))))

\* render(), by class
render(f) ==
    CASE f.kind = "Dynamic" -> Dynamic_render(f)
      [] f.kind \in CalculatedKinds -> Calculated_render(f, FALSE)
      [] OTHER -> BaseField_render(f)

\* Dynamic.set_session_data; session_data is a record [key, value] or None
Dynamic_set_session_data(f, session_data) ==
    IF session_data.key = f.key
    THEN [obj |-> set_current_value(f, session_data.value), ret |-> TRUE]
    ELSE [obj |-> f, ret |-> FALSE]

(***************************************************************************)
(* Constructors                                                            *)
(***************************************************************************)
\* Static.__init__
Static_new(value) == BaseField_init([kind |-> "Static"], value, FALSE)

\* _LibraryField.__init__ after BaseField.__init__
LibraryField_new(o) == initialize([lib |-> None] @@ o)

\* String.__init__ and Delimiter.__init__ (kind is the class)
String_new(kind, value, max_size, fuzzable) ==
    LibraryField_new(BaseField_init([kind |-> kind, max_size |-> max_size], value, fuzzable))

\* BitField._calc_bounds; ok is false where it raises
BitField_calc_bounds(length, signed, value, minv, maxv) ==
    LET max_possible == Pow2(length) - 1
        min0 == IF signed THEN -(max_possible \div 2) - 1 ELSE 0
        max0 == max_possible + min0
        max1 == IF Len(maxv) /= 0 THEN maxv[1] ELSE max0
        min1 == IF Len(minv) /= 0 THEN minv[1] ELSE min0
    IN  [ ok |-> /\ length > 0
                 /\ (Len(maxv) /= 0 => maxv[1] <= max0)
                 /\ (Len(minv) /= 0 => minv[1] >= min0)
                 /\ min1 <= max1
                 /\ value >= min1 /\ value <= max1,
          min_value |-> min1, max_value |-> max1, max_min_diff |-> max_possible ]

\* BitField.__init__ with the default encoder
BitField_new(value, length, signed, min_value, max_value, fuzzable) ==
    LET b == BitField_calc_bounds(length, signed, value, min_value, max_value)
    IN  LibraryField_new(BaseField_init(
            [kind |-> "BitField", length |-> length, signed |-> signed,
             min_value |-> b.min_value, max_value |-> b.max_value,
             max_min_diff |-> b.max_min_diff], value, fuzzable))

\* Group.__init__
Group_new(values, fuzzable) ==
    LibraryField_new(BaseField_init([kind |-> "Group", values |-> values], values[1], fuzzable))

\* Dynamic.__init__; length is None (<<>>) or <<the length in bytes>>
Dynamic_new(key, default_value, length, fuzzable) ==
    LET o == BaseField_init([kind |-> "Dynamic", key |-> key, length |-> length,
                             last_value |-> default_value], default_value, fuzzable)
    IN  IF fuzzable THEN [o EXCEPT !.num_mutations = length[1] * 8] ELSE o

\* what RandomBits.__init__ and RandomBytes.__init__ do after BaseField.__init__
Random_new(o, num, step) ==
    [o EXCEPT !.num_mutations =
                  IF Len(step) /= 0 /\ step[1] /= 0
                  THEN (o.max_length - o.min_length) \div step[1] ELSE num,
              !.random = Random_seed(o.seed)]

\* RandomBits.__init__
RandomBits_init(value, min_length, max_length, unused_bits, seed, num, step, encoder, fuzzable) ==
    LET bits == BitsFromBytes(value)
        v    == IF unused_bits /= 0 THEN SubSeq(bits, 1, Len(bits) - unused_bits) ELSE bits
    IN  Random_new(BaseField_init(
            [kind |-> "RandomBits", min_length |-> min_length, max_length |-> max_length,
             step |-> step, seed |-> seed, random |-> 0, encoder |-> encoder],
            v, fuzzable), num, step)

\* RandomBits.__init__ with encoder=ENC_BITS_DEFAULT
RandomBits_new(value, min_length, max_length, unused_bits, seed, num, step, fuzzable) ==
    RandomBits_init(value, min_length, max_length, unused_bits, seed, num, step,
                    "ENC_BITS_DEFAULT", fuzzable)

\* RandomBytes.__init__
RandomBytes_new(value, min_length, max_length, seed, num, step, fuzzable) ==
    Random_new(BaseField_init(
        [kind |-> "RandomBytes", min_length |-> min_length, max_length |-> max_length,
         step |-> step, seed |-> seed, random |-> 0], value, fuzzable), num, step)

\* CalculatedInt.__init__ and Calculated.__init__ on a field object
CalculatedInt_new(kind, depends_on, bit_field, fuzzable) ==
    [BaseField_init(
         [kind |-> kind, rendered_field |-> None, field_name |-> None,
          field |-> depends_on, bit_field |-> bit_field,
          first_render |-> FALSE], <<>>, fuzzable)
     EXCEPT !.num_mutations = num_mutations(bit_field)]

\* Size.__init__ over the field object sized_field, with the default calc_func
Size_new(sized_field, length, fuzzable) ==
    CalculatedInt_new("Size", sized_field,
                      BitField_new(0, length, FALSE, None, None, TRUE), fuzzable)

(***************************************************************************)
(* Containers (spec.md 4.3).  The fields of a tree are kept by name: a     *)
(* tree is a function from the names of its fields to the objects, and a   *)
(* container holds the names of its children.                              *)
(***************************************************************************)
\* KittyObject.__init__(name) and `self._enclosing = None` of BaseField.__init__;
\* _enclosing is None (<<>>) or <<the name of the container>>
Named(f, name) == [name |-> name, enclosing |-> None] @@ f

\* Container.__init__(name, fields, fuzzable): a field without a value of its own
Container_new(name, fields, fuzzable) ==
    Named(BaseField_init([kind |-> "Container", fields |-> fields], <<>>, fuzzable), name)

\* BaseField._set_enclosing, as the container calls it for each of its fields:
\* the container of the objects objs that holds the field called name
enclosing_of(objs, name) ==
    LET cs == { i \in 1..Len(objs) :
                  /\ objs[i].kind = "Container"
                  /\ \E k \in 1..Len(objs[i].fields) : objs[i].fields[k] = name }
    IN  IF cs = {} THEN None ELSE <<objs[CHOOSE i \in cs : TRUE].name>>

\* the tree of the named objects objs
Tree(objs) ==
    [ n \in { objs[i].name : i \in 1..Len(objs) } |->
        [ objs[CHOOSE i \in 1..Len(objs) : objs[i].name = n]
          EXCEPT !.enclosing = enclosing_of(objs, n) ] ]

\* the result of a call on the field n of the tree h, r being the call on the object
Tree_put(h, n, r) == [obj |-> [h EXCEPT ![n] = r.obj], ret |-> r.ret]

\* Container.num_mutations: the sum over the children; Container_sum is the
\* sum over the first k children
RECURSIVE Tree_num_mutations(_, _)
RECURSIVE Container_sum(_, _, _)
Container_sum(h, n, k) ==
    IF k = 0 THEN 0
    ELSE Container_sum(h, n, k - 1) + Tree_num_mutations(h, h[n].fields[k])

Container_num_mutations(h, n) ==
    IF h[n].fuzzable THEN Container_sum(h, n, Len(h[n].fields)) ELSE 0

\* num_mutations(), by class
Tree_num_mutations(h, n) ==
    IF h[n].kind = "Container" THEN Container_num_mutations(h, n) ELSE num_mutations(h[n])

\* the child that mutation index i selects: the first child c, from k on, with
\* i < the sum of the num_mutations of the children up to c
RECURSIVE Container_child_of(_, _, _, _)
Container_child_of(h, n, i, k) ==
    IF i < Container_sum(h, n, k) THEN k ELSE Container_child_of(h, n, i, k + 1)

\* Container.reset: every child is reset; Container_reset_loop resets the
\* first k children
RECURSIVE Tree_reset(_, _)
RECURSIVE Container_reset_loop(_, _, _)
Container_reset_loop(h, n, k) ==
    IF k = 0 THEN h ELSE Tree_reset(Container_reset_loop(h, n, k - 1), h[n].fields[k])

Container_reset(h, n) ==
    [Container_reset_loop(h, n, Len(h[n].fields)) EXCEPT ![n] = BaseField_reset(@)]

\* reset(), by class
Tree_reset(h, n) ==
    IF h[n].kind = "Container" THEN Container_reset(h, n)
    ELSE [h EXCEPT ![n] = reset(@)]

\* Container.mutate: the index advances; the child it leaves, when it leaves
\* one, is reset, and the child it selects is mutated
RECURSIVE Tree_mutate(_, _)
Container_mutated(n, r) ==
    [obj |-> [r.obj EXCEPT ![n].current_index = @ + 1], ret |-> TRUE]

Container_mutate_child(h, n, left, selected) ==
    Container_mutated(n,
        Tree_mutate(IF left /= selected THEN Tree_reset(h, h[n].fields[left]) ELSE h,
                    h[n].fields[selected]))

Container_mutate(h, n) ==
    IF h[n].current_index >= Container_num_mutations(h, n) - 1
    THEN [obj |-> h, ret |-> FALSE]
    ELSE Container_mutate_child(h, n,
             Container_child_of(h, n, Max(h[n].current_index, 0), 1),
             Container_child_of(h, n, h[n].current_index + 1, 1))

\* mutate(), by class
Tree_mutate(h, n) ==
    IF h[n].kind = "Container" THEN Container_mutate(h, n)
    ELSE Tree_put(h, n, mutate(h[n]))

(***************************************************************************)
(* Calculated fields that name the field they depend on (spec.md 4.4):     *)
(* resolution of the name, and render(ctx) over a tree                     *)
(***************************************************************************)
\* Calculated.__init__ with a name for depends_on: _field_name is <<the name>>
Calculated_by_name(f, depends_on, name) ==
    Named([f EXCEPT !.field_name = <<depends_on>>, !.field = None], name)

\* Size.__init__ over the name of the sized field
Size_by_name(sized_field, length, fuzzable, name) ==
    Calculated_by_name(
        CalculatedInt_new("Size", None, BitField_new(0, length, FALSE, None, None, TRUE),
                          fuzzable),
        sized_field, name)

\* FieldIntProperty.__init__ of the class ElementCount, without a correction
ElementCount_by_name(depends_on, length, fuzzable, name) ==
    Calculated_by_name(
        CalculatedInt_new("ElementCount", None,
                          BitField_new(0, length, FALSE, None, None, TRUE), fuzzable),
        depends_on, name)

\* scan_for_field: BaseField finds itself, CalculatedInt only its bit field
\* (which has no name), a container itself, its children by their names and
\* what its children find;
\* the result is None or <<the name of the field found>>
RECURSIVE Tree_scan_for_field(_, _, _)
RECURSIVE Container_scan_loop(_, _, _, _)
Container_scan_loop(h, n, field_name, k) ==
    IF k > Len(h[n].fields) THEN None
    ELSE IF h[n].fields[k] = field_name THEN <<field_name>>
    ELSE IF Len(Tree_scan_for_field(h, h[n].fields[k], field_name)) /= 0
         THEN Tree_scan_for_field(h, h[n].fields[k], field_name)
         ELSE Container_scan_loop(h, n, field_name, k + 1)

Container_scan_for_field(h, n, field_name) ==
    IF n = field_name THEN <<n>> ELSE Container_scan_loop(h, n, field_name, 1)

Tree_scan_for_field(h, n, field_name) ==
    CASE h[n].kind = "Container" -> Container_scan_for_field(h, n, field_name)
      [] h[n].kind \in CalculatedKinds -> None
      [] OTHER -> IF n = field_name THEN <<n>> ELSE None

\* BaseField.resolve_field; None where it raises
RECURSIVE resolve_field(_, _, _)
resolve_field(h, n, field_name) ==
    IF Len(Tree_scan_for_field(h, n, field_name)) /= 0
    THEN Tree_scan_for_field(h, n, field_name)
    ELSE IF Len(h[n].enclosing) /= 0
         THEN resolve_field(h, h[n].enclosing[1], field_name)
         ELSE None

\* Calculated._initialize on the field n of the tree h
Calculated_initialize_by_name(h, n) ==
    [h EXCEPT ![n].field = resolve_field(h, n, h[n].field_name[1])]

\* RenderContext.__init__(initiator): the render stack holds the names of
\* the fields pushed.  calls is the python call stack next to it: the calls
\* of Calculated.render that are under way, each with the render stack it
\* was entered with.
RenderContext_new(initiator, calls) == [render_stack |-> initiator, calls |-> calls]

\* RenderContext.push, by a call of Calculated.render
RenderContext_push(ctx, item) ==
    [render_stack |-> Append(ctx.render_stack, item),
     calls |-> ctx.calls \cup {<<item, ctx.render_stack>>}]

\* RenderContext.__contains__
RenderContext_contains(ctx, item) ==
    \E k \in 1..Len(ctx.render_stack) : ctx.render_stack[k] = item

\* a call that is entered while the same call is under way never returns:
\* python ends it with "maximum recursion depth exceeded"
RecursionError == <<3>>

\* the result of a call on the tree: the tree, the value returned and the
\* exception raised, "" for none
Returned(h, value) == [obj |-> h, ret |-> value, exc |-> ""]
Raise(h, exc) == [obj |-> h, ret |-> None, exc |-> exc]

\* the result of a render on the field n of the tree h, f being the object after it
Tree_rendered(h, n, f) ==
    IF f.current_rendered = EncodeError THEN Raise([h EXCEPT ![n] = f], "EncodeError")
    ELSE Returned([h EXCEPT ![n] = f], f.current_rendered)

RECURSIVE Tree_render(_, _, _)
RECURSIVE Tree_get_rendered_fields(_, _, _)

\* Container.render: the renderings of the children, concatenated in
\* declaration order; Container_render_loop renders the first k children
RECURSIVE Container_render_loop(_, _, _, _)
Container_render_append(bits, r) ==
    IF r.exc /= "" THEN r ELSE Returned(r.obj, bits \o r.ret)

Container_render_next(n, ctx, k, r) ==
    IF r.exc /= "" THEN r
    ELSE Container_render_append(r.ret, Tree_render(r.obj, r.obj[n].fields[k], ctx))

Container_render_loop(h, n, ctx, k) ==
    IF k = 0 THEN Returned(h, <<>>)
    ELSE Container_render_next(n, ctx, k, Container_render_loop(h, n, ctx, k - 1))

Container_render_store(n, r) ==
    IF r.exc /= "" THEN r
    ELSE Returned([r.obj EXCEPT ![n].current_rendered = r.ret], r.ret)

Container_render(h, n, ctx) ==
    Container_render_store(n, Container_render_loop(h, n, ctx, Len(h[n].fields)))

\* Container.get_rendered_fields: the children whose rendering is not empty;
\* Container_rendered_loop goes through the first k children
RECURSIVE Container_rendered_loop(_, _, _, _)
Container_rendered_append(fields, name, r) ==
    IF r.exc /= "" THEN r
    ELSE Returned(r.obj, IF Len(r.ret) /= 0 THEN Append(fields, name) ELSE fields)

Container_rendered_next(n, ctx, k, r) ==
    IF r.exc /= "" THEN r
    ELSE Container_rendered_append(r.ret, r.obj[n].fields[k],
                                   Tree_render(r.obj, r.obj[n].fields[k], ctx))

Container_rendered_loop(h, n, ctx, k) ==
    IF k = 0 THEN Returned(h, <<>>)
    ELSE Container_rendered_next(n, ctx, k, Container_rendered_loop(h, n, ctx, k - 1))

Container_get_rendered_fields(h, n, ctx) ==
    Container_rendered_loop(h, n, ctx, Len(h[n].fields))

\* BaseField.get_rendered_fields, r being the call self.render(ctx)
BaseField_get_rendered_fields(n, r) ==
    IF r.exc /= "" THEN r
    ELSE Returned(r.obj, IF Len(r.ret) /= 0 THEN <<n>> ELSE <<>>)

\* get_rendered_fields(ctx), by class
Tree_get_rendered_fields(h, n, ctx) ==
    IF h[n].kind = "Container" THEN Container_get_rendered_fields(h, n, ctx)
    ELSE BaseField_get_rendered_fields(n, Tree_render(h, n, ctx))

\* ElementCount._calculate and CalculatedInt._render, g being the call
\* field.get_rendered_fields(RenderContext(self))
ElementCount_render(n, g) ==
    IF g.exc /= "" THEN g
    ELSE Tree_rendered(g.obj, n, CalculatedInt_render_value(g.obj[n], Len(g.ret)))

\* self._render(), by class
Calculated_do_render(h, n, ctx) ==
    IF h[n].kind = "ElementCount"
    THEN ElementCount_render(n,
             Tree_get_rendered_fields(h, h[n].field[1],
                                      RenderContext_new(<<n>>, ctx.calls)))
    ELSE Tree_rendered(h, n, CalculatedInt_render(h[n]))

\* `self._rendered_field = self._field.render(ctx)` and `self._render()`,
\* d being the call self._field.render(ctx)
Calculated_render_field(n, ctx, d) ==
    IF d.exc /= "" THEN d
    ELSE Calculated_do_render([d.obj EXCEPT ![n].rendered_field = d.ret], n, ctx)

\* Calculated.render(ctx) after self._initialize()
Calculated_render_initialized(h, n, ctx) ==
    IF Len(h[n].field) = 0 THEN Raise(h, "KittyException")
    ELSE IF RenderContext_contains(ctx, n)
    THEN Tree_rendered(h, n, [h[n] EXCEPT !.current_rendered =
                                              CalculatedInt_in_render_value(h[n])])
    ELSE IF <<n, ctx.render_stack>> \in ctx.calls
    THEN Raise(h, "RecursionError")
    ELSE Calculated_render_field(n, RenderContext_push(ctx, n),
             Tree_render(h, h[n].field[1], RenderContext_push(ctx, n)))

\* Calculated.render(ctx) of a field that names the field it depends on
Calculated_render_by_name(h, n, ctx) ==
    Calculated_render_initialized(Calculated_initialize_by_name(h, n), n, ctx)

\* render(ctx), by class
Tree_render(h, n, ctx) ==
    CASE h[n].kind = "Container" -> Container_render(h, n, ctx)
      [] h[n].kind \in CalculatedKinds -> Calculated_render_by_name(h, n, ctx)
      [] OTHER -> Tree_rendered(h, n, render(h[n]).obj)

(***************************************************************************)
(* The objects under test, as the unit tests construct them, with small    *)
(* parameters                                                              *)
(***************************************************************************)
\* 'k', the key of the Dynamic fields
TheKey == <<107>>

\* the session data handed to Dynamic.set_session_data
SessionDatas == { [key |-> TheKey, value |-> <<98>>], [key |-> <<122>>, value |-> <<98>>] }

TestedFields ==
    { Static_new(<<97, 98>>),
      String_new("String", <<>>, <<MaxSize>>, TRUE),
      String_new("String", <<37, 115>>, <<MaxSize>>, TRUE),
      String_new("String", <<107>>, None, FALSE),
      String_new("Delimiter", <<61>>, <<0>>, TRUE),
      Group_new(<< <<97>>, <<98>>, <<99>> >>, TRUE),
      BitField_new(0, BitFieldLength, FALSE, None, None, TRUE),
      BitField_new(-1, BitFieldLength, TRUE, <<-3>>, <<2>>, TRUE),
      Dynamic_new(TheKey, <<97>>, <<1>>, TRUE),
      Dynamic_new(TheKey, <<97>>, None, FALSE),
      RandomBits_new(<<97, 98>>, 5, 10, 3, 1235, RandomMutations, None, TRUE),
      RandomBits_new(<<97, 98>>, 5, 10, 3, 1235, RandomMutations, <<2>>, TRUE),
      RandomBytes_new(<<97, 98>>, 1, 3, 1235, RandomMutations, None, TRUE),
      Size_new(Static_new(<<97, 98, 99>>), BitFieldLength, TRUE),
      Size_new(Static_new(<<97, 98, 99>>), BitFieldLength, FALSE) }

(***************************************************************************)
(* The state machine: one field object and the calls made on it            *)
(***************************************************************************)
VARIABLES field,      \* the object
          fresh,      \* the object as it was constructed
          op,         \* the last call
          arg,        \* its argument (skip); for reset(), 1 if the object had been used
          ret,        \* what it returned
          prev,       \* the call before it: "reset", "reset of a used object" or "other"
          advanced,   \* mutations consumed since construction or reset()
          strict,     \* the calls since construction or reset() are mutate(), render(), mutate(), ...
          curPass,    \* the renderings of those calls
          clean,      \* all the calls since construction are such loops, each run
                      \* until mutate() returned False and followed by reset()
          firstHash,  \* what the first hash() of the object returned
          fuzzer      \* the fuzzing session, where there is one: the fuzzer, its
                      \* model, its target and its session store

vars == <<field, fresh, op, arg, ret, prev, advanced, strict, curPass, clean, firstHash,
         fuzzer>>

Init ==
    /\ field \in TestedFields
    /\ fresh = field
    /\ op = "new"
    /\ arg = 0
    /\ ret = None
    /\ prev = "other"
    /\ advanced = 0
    /\ strict = TRUE
    /\ curPass = <<>>
    /\ clean = TRUE
    /\ firstHash = None
    /\ fuzzer = None

\* the object differs from a constructed or reset one
Used == advanced > 0 \/ op \in {"render", "set_session_data", "mutate", "skip"}

\* the value of prev after one more call
PrevOf ==
    IF op = "reset" THEN (IF arg = 1 THEN "reset of a used object" ELSE "reset") ELSE "other"

\* the variables after a call of mutate(), r being the call
Mutated(r) ==
    /\ field' = r.obj
    /\ op' = "mutate" /\ arg' = 0 /\ ret' = r.ret /\ prev' = PrevOf
    /\ advanced' = advanced + (IF r.ret THEN 1 ELSE 0)
    /\ strict' = (strict /\ op \in {"new", "reset", "render"})
    /\ curPass' = IF strict' THEN curPass ELSE <<>>
    /\ clean' = (clean /\ strict')
    /\ UNCHANGED <<fuzzer, fresh, firstHash>>

\* while mutate(): ...
Mutate == Mutated(mutate(field))

\* the variables after a call of skip(count), r being the call
Skipped(count, r) ==
    /\ field' = r.obj
    /\ op' = "skip" /\ arg' = count /\ ret' = r.ret /\ prev' = PrevOf
    /\ advanced' = advanced + r.ret
    /\ strict' = FALSE /\ curPass' = <<>> /\ clean' = FALSE
    /\ UNCHANGED <<fuzzer, fresh, firstHash>>

\* skip(count)
Skip(count) == Skipped(count, skip(field, count))

\* the variables after a call of render(), r being the call
Rendered(r) ==
    /\ field' = r.obj
    /\ op' = "render" /\ arg' = 0 /\ ret' = r.ret /\ prev' = PrevOf
    /\ strict' = (strict /\ op = "mutate" /\ ret = TRUE)
    /\ curPass' = IF strict' THEN Append(curPass, r.ret) ELSE <<>>
    /\ clean' = (clean /\ strict')
    /\ UNCHANGED <<fuzzer, fresh, advanced, firstHash>>

\* render()
Render == Rendered(render(field))

\* the variables after a call of reset() that leaves the object f
ResetTo(f) ==
    /\ field' = f
    /\ op' = "reset" /\ arg' = (IF Used THEN 1 ELSE 0) /\ ret' = None /\ prev' = PrevOf
    /\ advanced' = 0
    /\ strict' = TRUE /\ curPass' = <<>>
    /\ clean' = (clean /\ strict /\ op = "mutate" /\ ret = FALSE)
    /\ UNCHANGED <<fuzzer, fresh, firstHash>>

\* reset()
Reset == ResetTo(reset(field))

\* the variables after a call of hash(), r being the call
Hashed(r) ==
    /\ field' = r.obj
    /\ op' = "hash" /\ arg' = 0 /\ ret' = r.ret /\ prev' = PrevOf
    /\ firstHash' = IF firstHash = None THEN r.ret ELSE firstHash
    /\ strict' = FALSE /\ curPass' = <<>> /\ clean' = FALSE
    /\ UNCHANGED <<fuzzer, fresh, advanced>>

\* hash()
Hash == Hashed(hash(field))

\* the variables after a call of set_session_data(), r being the call
SessionDataSet(r) ==
    /\ field' = r.obj
    /\ op' = "set_session_data" /\ arg' = 0 /\ ret' = r.ret /\ prev' = PrevOf
    /\ strict' = FALSE /\ curPass' = <<>> /\ clean' = FALSE
    /\ UNCHANGED <<fuzzer, fresh, advanced, firstHash>>

\* set_session_data(session_data), of Dynamic
SetSessionData(session_data) ==
    /\ field.kind = "Dynamic"
    /\ SessionDataSet(Dynamic_set_session_data(field, session_data))

\* the counts given to skip: small ones, and one beyond the end
SkipCounts == (0..MaxSkip) \cup {num_mutations(field) + 1}

Next ==
    \/ Mutate
    \/ \E count \in SkipCounts : Skip(count)
    \/ Render
    \/ Reset
    \/ Hash
    \/ \E session_data \in SessionDatas : SetSessionData(session_data)

Spec == Init /\ [][Next]_vars

(***************************************************************************)
(* BitFields of every shape the constructor accepts                        *)
(***************************************************************************)
\* an optional argument: None or a value of S
Optional(S) == {None} \cup {<<v>> : v \in S}

\* the integers that fit in some field of at most BitFieldLength bits
BitFieldValues == (-Pow2(BitFieldLength - 1))..(Pow2(BitFieldLength) - 1)

\* the arguments (length, signed, value, min_value, max_value) with which
\* BitField.__init__ does not raise
BitFieldArguments ==
    { t \in (1..BitFieldLength) \X BOOLEAN \X BitFieldValues
            \X Optional(BitFieldValues) \X Optional(BitFieldValues) :
        BitField_calc_bounds(t[1], t[2], t[3], t[4], t[5]).ok }

\* the fields of AlignedBitTests.testMaxValue, testMinValue and
\* testMinMaxValue at every length up to BitFieldLength, and the 8-bit
\* unsigned field of default 0
BitFields ==
    { BitField_new(t[3], t[1], t[2], t[4], t[5], TRUE) : t \in BitFieldArguments }
    \cup { BitField_new(0, 8, FALSE, None, None, TRUE) }

\* the state after the construction of one of the objects of `fields`
Constructed(fields) ==
    /\ field \in fields
    /\ fresh = field
    /\ op = "new"
    /\ arg = 0
    /\ ret = None
    /\ prev = "other"
    /\ advanced = 0
    /\ strict = TRUE
    /\ curPass = <<>>
    /\ clean = TRUE
    /\ firstHash = None
    /\ fuzzer = None

InitBitField == Constructed(BitFields)

\* the calls of ValueTestCase._get_all_mutations and reset()
NextMutations ==
    \/ Mutate
    \/ Render
    \/ Reset

SpecBitField == InitBitField /\ [][NextMutations]_vars

(***************************************************************************)
(* RandomBits fields encoded by ENC_BITS_BYTE_ALIGNED                      *)
(***************************************************************************)
\* RandomBits of 'ab' less its last unused_bits bits, mutated either to every
\* length below MaxBits in turn (step 1) or to RandomMutations random lengths
ByteAlignedFields ==
    { RandomBits_init(<<97, 98>>, 0, MaxBits, unused_bits, 1235, RandomMutations, step,
                      "ENC_BITS_BYTE_ALIGNED", TRUE) :
        unused_bits \in 0..7, step \in {None, <<1>>} }

InitByteAligned == Constructed(ByteAlignedFields)

SpecByteAligned == InitByteAligned /\ [][NextMutations]_vars

(***************************************************************************)
(* Fuzzable Size fields over dependencies of every length                  *)
(***************************************************************************)
\* fuzzable Size fields of BitFieldLength bits over a Static of 0 bytes, 1
\* byte, ... up to two bytes more than the field can count
FuzzableSizes ==
    { Size_new(Static_new(Repeat(<<97>>, n)), BitFieldLength, TRUE) :
        n \in 0..(Pow2(BitFieldLength) + 1) }

InitFuzzableSize == Constructed(FuzzableSizes)

SpecFuzzableSize == InitFuzzableSize /\ [][NextMutations]_vars

(***************************************************************************)
(* Trees: a container called "root", its fields, and the calls made on it  *)
(* and on its fields.  The variable field holds the tree.                  *)
(***************************************************************************)
\* what a call on the tree leaves in ret: the value returned or the exception
ResultOf(r) ==
    CASE r.exc = "" -> r.ret
      [] r.exc = "RecursionError" -> RecursionError
      [] OTHER -> EncodeError

\* container.mutate()
TreeMutate == Mutated(Tree_mutate(field, "root"))

\* the variables after a call of render() on the field n, r being the call;
\* arg is the name of the field
TreeRendered(n, r) ==
    /\ field' = r.obj
    /\ op' = "render" /\ arg' = n /\ ret' = ResultOf(r) /\ prev' = PrevOf
    /\ strict' = (strict /\ op = "mutate" /\ ret = TRUE /\ n = "root")
    /\ curPass' = IF strict' THEN Append(curPass, ResultOf(r)) ELSE <<>>
    /\ clean' = (clean /\ strict')
    /\ UNCHANGED <<fuzzer, fresh, advanced, firstHash>>

\* render() of the container or of one of the fields, from outside a render
TreeRender(n) == TreeRendered(n, Tree_render(field, n, RenderContext_new(<<>>, {})))

\* container.reset()
TreeReset == ResetTo(Tree_reset(field, "root"))

NextTree ==
    \/ TreeMutate
    \/ \E n \in DOMAIN field : TreeRender(n)
    \/ TreeReset

(***************************************************************************)
(* Containers of plain fields                                              *)
(***************************************************************************)
\* the fields put in the containers, before they are given a name
ContainedFields ==
    { Static_new(<<97, 98>>),
      Group_new(<< <<97>>, <<98, 99>>, <<>> >>, TRUE),
      BitField_new(0, BitFieldLength, FALSE, None, None, TRUE),
      RandomBits_new(<<97, 98>>, 5, 10, 3, 1235, RandomMutations, <<2>>, TRUE) }

\* Container(fields=[a, b]) and Container(fields=[a, Container(fields=[b, c])])
ContainerTrees ==
    { Tree(<<Container_new("root", <<"a", "b">>, TRUE), Named(a, "a"), Named(b, "b")>>) :
        a \in ContainedFields, b \in ContainedFields }
    \cup
    { Tree(<<Container_new("root", <<"a", "inner">>, TRUE),
             Container_new("inner", <<"b", "c">>, TRUE),
             Named(a, "a"), Named(b, "b"),
             Named(Group_new(<< <<97>>, <<98, 99>>, <<>> >>, TRUE), "c")>>) :
        a \in ContainedFields, b \in ContainedFields }

InitContainer == Constructed(ContainerTrees)

SpecContainer == InitContainer /\ [][NextTree]_vars

(***************************************************************************)
(* Containers with a Size field that is not fuzzable                       *)
(***************************************************************************)
\* the fields sized, before they are given a name: a Static, and Groups whose
\* values are of 1, 5, 0 and more than 2 ** BitFieldLength bytes
SizedFields ==
    { Static_new(<<97, 98, 99>>),
      Group_new(<< <<97>>, <<97, 98, 99, 100, 101>>, <<>>,
                   Repeat(<<97>>, Pow2(BitFieldLength) + 1) >>, TRUE),
      Group_new(<< Repeat(<<97>>, Pow2(BitFieldLength)), <<98>> >>, TRUE) }

\* the widths of the Size fields
SizeLengths == {BitFieldLength, 2 * BitFieldLength + 2}

\* CalculatedTestCase: Container([depends_on, size]) and Container([size,
\* depends_on]), the Size over the field and over a container of two fields
SizeTrees ==
    { Tree(<<Container_new("root", fields, TRUE), Named(d, "depends_on"),
             Size_by_name("depends_on", length, FALSE, "size")>>) :
        fields \in {<<"depends_on", "size">>, <<"size", "depends_on">>},
        d \in SizedFields, length \in SizeLengths }
    \cup
    { Tree(<<Container_new("root", fields, TRUE),
             Container_new("depends_on", <<"a", "b">>, TRUE),
             Named(a, "a"), Named(Static_new(<<98>>), "b"),
             Size_by_name("depends_on", BitFieldLength, FALSE, "size")>>) :
        fields \in {<<"depends_on", "size">>, <<"size", "depends_on">>},
        a \in SizedFields }

\* SizeTests.testSizeInclusiveAlone, and the same Size with a field before
\* or after it: the Size is over the container that holds it
InclusiveSizeTrees ==
    { Tree(<<Container_new("root", <<"size">>, TRUE),
             Size_by_name("root", length, FALSE, "size")>>) :
        length \in {2 * BitFieldLength + 2, 4 * BitFieldLength + 4} }
    \cup
    { Tree(<<Container_new("root", fields, TRUE), Named(d, "a"),
             Size_by_name("root", 2 * BitFieldLength + 2, FALSE, "size")>>) :
        fields \in {<<"a", "size">>, <<"size", "a">>}, d \in SizedFields }

InitSize == Constructed(SizeTrees \cup InclusiveSizeTrees)

SpecSize == InitSize /\ [][NextTree]_vars

(***************************************************************************)
(* Containers of calculated fields with every assignment of dependencies   *)
(***************************************************************************)
\* a calculated field of the class kind over the field called depends_on
Calculated_of(kind, depends_on, name) ==
    IF kind = "Size" THEN Size_by_name(depends_on, 2 * BitFieldLength + 2, FALSE, name)
    ELSE ElementCount_by_name(depends_on, 2 * BitFieldLength + 2, FALSE, name)

\* Container([x, y, a]): x and y are Size or ElementCount fields, each over
\* the container, over itself, over the other one or over the Group a
CalculatedTrees ==
    { Tree(<<Container_new("root", <<"x", "y", "a">>, TRUE),
             Calculated_of(kx, dx, "x"), Calculated_of(ky, dy, "y"),
             Named(Group_new(<< <<97>>, <<98, 99>>, <<>> >>, TRUE), "a")>>) :
        kx \in {"Size", "ElementCount"}, ky \in {"Size", "ElementCount"},
        dx \in {"root", "x", "y", "a"}, dy \in {"root", "x", "y", "a"} }

InitCalculated == Constructed(CalculatedTrees)

SpecCalculated == InitCalculated /\ [][NextTree]_vars

(***************************************************************************)
(* BitFieldMultiByteEncoder on its own                                     *)
(***************************************************************************)
\* the encoders and the arguments of encode: every unsigned value of up to
\* MaxBits + 3 bits (three bytes of seven bits and more), and signed values
MultiByteArguments ==
    { [mode |-> mode, value |-> value, length |-> 2 * MaxBits, signed |-> FALSE] :
        mode \in {"be", "le"}, value \in 0..(Pow2(MaxBits + 3) - 1) }
    \cup
    { [mode |-> "be", value |-> value, length |-> 8, signed |-> TRUE] :
        value \in (-128)..127 }

InitMultiByte == Constructed(MultiByteArguments)

\* encoder.encode(value, length, signed)
Encode ==
    /\ op' = "encode"
    /\ ret' = BitFieldMultiByteEncoder_encode(field.mode, field.value, field.length,
                                              field.signed)
    /\ UNCHANGED <<field, fresh, arg, prev, advanced, strict, curPass, clean, firstHash,
                   fuzzer>>

SpecMultiByte == InitMultiByte /\ [][Encode]_vars

(***************************************************************************)
(* The fuzzers (fuzzers/base.py, fuzzers/client.py).  A fuzzing session is *)
(* a record w: the attributes of the ClientFuzzer (config, session_info,   *)
(* the events, the flags), its model, the session store of its             *)
(* DataManager, the calls its target has received (log), the position of   *)
(* the target control thread in _do_trigger (pc) and what start()          *)
(* returned (started).                                                      *)
(***************************************************************************)
\* _get_current_version()
CurrentVersion == "0.6.9"

\* SessionInfo(): the session info of a fuzzer that was just built
SessionInfo_new ==
    [start_index |-> 0, current_index |-> 0, end_index |-> None, failure_count |-> 0,
     kitty_version |-> "", data_model_hash |-> 0]

\* the model (spec.md 4.5): current_index() is the index of the last mutation,
\* -1 before the first; last_index() is the index of the last one there is
Model_new(mutations, digest) ==
    [current_index |-> -1, num_mutations |-> mutations, hash |-> digest]

Model_last_index(model) == model.num_mutations - 1

\* model.mutate(): one step forward; Model_can_mutate is what it returns
Model_can_mutate(model) == model.current_index < Model_last_index(model)

Model_mutate(model) ==
    IF Model_can_mutate(model) THEN [model EXCEPT !.current_index = @ + 1] ELSE model

\* model.skip(count): up to count steps forward
Model_skip(model, count) ==
    [model EXCEPT !.current_index =
                      Min(@ + count, Max(@, Model_last_index(model)))]

\* a call f(i) that the target receives, i being -1 for a call without
\* argument.  The mock targets of the tests record the calls the same way.
Target_call(w, f, i) == [w EXCEPT !.log = Append(@, [f |-> f, i |-> i, status |-> ""])]

\* target.get_report() of the test i, the report having the status given
Target_get_report(w, i, status) ==
    [w EXCEPT !.log = Append(@, [f |-> "get_report", i |-> i, status |-> status])]

\* BaseFuzzer._store_session / _set_session_info: dataman.set_session_info
BaseFuzzer_store_session(w) ==
    [w EXCEPT !.dataman.session_info = <<w.session_info>>,
              !.log = Append(@, [f |-> "set_session_info", i |-> w.session_info.current_index,
                                 status |-> ""])]

\* BaseFuzzer._load_session: `if info:` finds a stored session
SessionStored(w) == Len(w.dataman.session_info) /= 0

BaseFuzzer_load_session(w) ==
    IF SessionStored(w) THEN [w EXCEPT !.session_info = w.dataman.session_info[1]]
    ELSE [w EXCEPT !.dataman.session_info = <<w.session_info>>]

\* a session check that accepts every stored session
SessionValid_unchecked(w) == TRUE

\* BaseFuzzer._check_session_validity returns and does not raise
SessionValid(w) ==
    /\ CurrentVersion = w.session_info.kitty_version
    /\ w.model.hash = w.session_info.data_model_hash

\* BaseFuzzer._test_environment, which ClientFuzzer does not override:
\* raise NotImplementedError
BaseFuzzer_test_environment(w) == [w EXCEPT !.started = "False"]

\* ClientFuzzer._start
ClientFuzzer_start(w) ==
    [Target_call(w, "setup", -1) EXCEPT !.pc = "check_pause", !.started = "True"]

\* BaseFuzzer.start from `self._in_environment_test = False` on
BaseFuzzer_start_fuzzing(w) ==
    ClientFuzzer_start(
        [w EXCEPT !.in_environment_test = FALSE,
                  !.model = Model_skip(w.model, w.session_info.current_index)])

\* BaseFuzzer.start: the try block, after self.target.setup()
BaseFuzzer_start_try(w) ==
    IF w.skip_env_test THEN BaseFuzzer_start_fuzzing(w)
    ELSE BaseFuzzer_test_environment(w)

\* BaseFuzzer.start: `if self.session_info.start_index > ...current_index`
BaseFuzzer_start_index(w) ==
    IF w.session_info.start_index > w.session_info.current_index
    THEN [w EXCEPT !.session_info.current_index = w.session_info.start_index]
    ELSE w

\* BaseFuzzer.start: `if self.session_info.end_index is None`
BaseFuzzer_end_index(w) ==
    IF Len(w.session_info.end_index) = 0
    THEN [w EXCEPT !.session_info.end_index = <<Model_last_index(w.model)>>]
    ELSE w

\* BaseFuzzer.start after the session was loaded and checked, or made
BaseFuzzer_start_session(w) ==
    BaseFuzzer_start_try(
        Target_call(BaseFuzzer_start_index(BaseFuzzer_store_session(BaseFuzzer_end_index(w))),
                    "setup", -1))

\* BaseFuzzer.start with a stored session, w being the fuzzer after _load_session
BaseFuzzer_start_loaded(w) ==
    IF SessionValid(w) THEN BaseFuzzer_start_session(w)
    ELSE [w EXCEPT !.started = "KittyException"]

\* BaseFuzzer.start; started is what it returns, or the exception it raises
BaseFuzzer_start(w) ==
    IF SessionStored(w) THEN BaseFuzzer_start_loaded(BaseFuzzer_load_session(w))
    ELSE BaseFuzzer_start_session(
             [BaseFuzzer_load_session(w) EXCEPT
                  !.session_info.kitty_version = CurrentVersion,
                  !.session_info.data_model_hash = w.model.hash])

\* a _keep_running that does not look at the failures
BaseFuzzer_keep_running_unlimited(w) ==
    w.model.current_index < w.session_info.end_index[1]

\* the model's get_sequence(): the templates on the path of the current
\* mutation, by name; the last one carries the mutation
Model_get_sequence(model) ==
    IF model.current_index % 2 = 0 THEN <<"Get">> ELSE <<"Get", "Post">>

\* the bytes a template of the path renders to: the template that carries
\* the mutation renders mutation current_index (the first of them being the
\* empty string), the others their default
Template_render(model, path, k) ==
    IF k = Len(path)
    THEN (IF model.current_index = 0 THEN <<>> ELSE <<model.current_index>>)
    ELSE <<255>>

\* the positions of the calls of f in the log of the session
CallsOf(w, f) == { k \in DOMAIN w.log : w.log[k].f = f }

\* BaseFuzzer._keep_running
BaseFuzzer_keep_running(w) ==
    IF w.config.max_failures /= 0 /\ w.session_info.failure_count >= w.config.max_failures
    THEN FALSE
    ELSE w.model.current_index < w.session_info.end_index[1]

\* a _check_pause that does not wait
BaseFuzzer_check_pause_ignored(w) == [w EXCEPT !.pc = "mutate"]

\* BaseFuzzer._check_pause: the thread goes on, or waits on the event
BaseFuzzer_check_pause(w) ==
    [w EXCEPT !.pc = IF w.continue_event THEN "mutate" ELSE "paused"]

\* ClientFuzzer._do_trigger: `if self.model.mutate() and self._keep_running()`,
\* m being the fuzzer after model.mutate(); the else branch ends in
\* self._trigger_stop_evt.wait()
ClientFuzzer_do_trigger_branch(w, m) ==
    IF Model_can_mutate(w.model) /\ BaseFuzzer_keep_running(m)
    THEN [m EXCEPT !.pc = "pre_test",
                   !.fuzz_path = Model_get_sequence(m.model),
                   !.index_in_path = 0,
                   !.log = Append(@, [f |-> "mutate", i |-> m.model.current_index,
                                      status |-> ""])]
    ELSE [m EXCEPT !.pc = "done"]

ClientFuzzer_do_trigger_mutate(w) ==
    ClientFuzzer_do_trigger_branch(w, [w EXCEPT !.model = Model_mutate(w.model)])

\* a pre_test that hands the index of the session info, as it was, to the target
BaseFuzzer_pre_test_stale(w) ==
    Target_call([w EXCEPT !.session_info.current_index = w.model.current_index,
                          !.pc = "trigger"],
                "pre_test", w.session_info.current_index)

\* BaseFuzzer._pre_test
BaseFuzzer_pre_test(w) ==
    Target_call([w EXCEPT !.session_info.current_index = w.model.current_index,
                          !.pc = "trigger"],
                "pre_test", w.model.current_index)

\* ClientFuzzer._do_trigger: self.target.trigger()
ClientFuzzer_do_trigger_trigger(w) ==
    [Target_call(w, "trigger", -1) EXCEPT !.pc = "post_test"]

\* a _store_report that stores every report under the same id
BaseFuzzer_store_report_unnumbered(w, status) ==
    [w EXCEPT !.dataman.reports = { r \in @ : r.i /= -1 } \cup {[i |-> -1, status |-> status]}]

\* BaseFuzzer._store_report: dataman.store_report(report, model.current_index())
BaseFuzzer_store_report(w, status) ==
    [w EXCEPT !.dataman.reports =
                  { r \in @ : r.i /= w.model.current_index }
                  \cup {[i |-> w.model.current_index, status |-> status]}]

\* a _post_test that stores the report of a failure and does not count it
BaseFuzzer_post_test_uncounted(w, status) ==
    IF w.in_environment_test THEN w
    ELSE IF status /= "passed" \/ w.config.store_all_reports
    THEN BaseFuzzer_store_session(BaseFuzzer_store_report(w, status))
    ELSE BaseFuzzer_store_session(w)

\* BaseFuzzer._post_test after `status = report.get_status()`
BaseFuzzer_post_test_status(w, status) ==
    IF w.in_environment_test THEN w
    ELSE IF status /= "passed"
    THEN BaseFuzzer_store_session(
             [BaseFuzzer_store_report(w, status) EXCEPT !.session_info.failure_count = @ + 1])
    ELSE IF w.config.store_all_reports
    THEN BaseFuzzer_store_session(BaseFuzzer_store_report(w, status))
    ELSE BaseFuzzer_store_session(w)

\* BaseFuzzer._post_test, the report of the target having the status given;
\* the call of _do_trigger returns and LoopFuncThread calls it again
BaseFuzzer_post_test(w, status) ==
    [BaseFuzzer_post_test_status(
         Target_get_report(Target_call(w, "post_test", w.model.current_index),
                           w.model.current_index, status),
         status)
     EXCEPT !.pc = "check_pause"]

\* ClientFuzzer.stop and BaseFuzzer.stop: the control thread is told to stop,
\* which ends it where it waits for the end of the session or is about to
\* begin an iteration, and the target is torn down
ClientFuzzer_stop(w) ==
    [Target_call(w, "teardown", -1)
     EXCEPT !.trigger_stop_evt = TRUE,
            !.pc = IF @ \in {"idle", "done", "check_pause"} THEN "stopped" ELSE @,
            !.stopped = TRUE]

\* BaseFuzzer._exit_now, the handler of SIGINT: self.stop(), sys.exit(0)
BaseFuzzer_exit_now(w) == ClientFuzzer_stop(w)

\* the loop of the control thread ends after the call of _do_trigger under
\* way, its stop event being set
LoopFuncThread_exit(w) == [w EXCEPT !.pc = "stopped"]

\* the user interface: _continue_event.clear()
Interface_pause(w) == [w EXCEPT !.continue_event = FALSE]

\* the user interface: _continue_event.set(), which wakes a thread that waits
Interface_resume(w) ==
    [w EXCEPT !.continue_event = TRUE, !.pc = IF @ = "paused" THEN "mutate" ELSE @]

\* ClientFuzzer.STAGE_ANY
STAGE_ANY == "******************"

\* str.lower() of the names of the templates and of the stages
lower(str) ==
    CASE str = "Get" -> "get"
      [] str = "GET" -> "get"
      [] str = "Post" -> "post"
      [] str = "POST" -> "post"
      [] OTHER -> str

\* a _should_fuzz_node that does not look at the place in the path
ClientFuzzer_should_fuzz_node_anywhere(w, name, stage) ==
    stage = STAGE_ANY \/ lower(name) = lower(stage)

\* ClientFuzzer._should_fuzz_node, which returns None where it falls through
ClientFuzzer_should_fuzz_node(w, name, stage) ==
    IF stage = STAGE_ANY THEN TRUE
    ELSE IF lower(name) = lower(stage)
    THEN w.index_in_path = Len(w.fuzz_path) - 1
    ELSE FALSE

\* ClientFuzzer._notify_mutated
ClientFuzzer_notify_mutated(w) == Target_call(w, "signal_mutated", -1)

\* the exceptions of indexing None and of an index out of range, set apart
\* from every payload by a byte that is none
TypeError == << <<-1>> >>
IndexError == << <<-2>> >>

\* ClientFuzzer.get_mutation: `if payload: self._notify_mutated()`
ClientFuzzer_get_mutation_notify(w, payload) ==
    [obj |-> IF payload /= <<>> THEN ClientFuzzer_notify_mutated(w) ELSE w,
     ret |-> <<payload>>]

\* ClientFuzzer.get_mutation: the else branch of `if self._should_fuzz_node`
ClientFuzzer_get_mutation_advance(w) ==
    [obj |-> [w EXCEPT !.index_in_path =
                           IF @ + 1 >= Len(w.fuzz_path) THEN 0 ELSE @ + 1],
     ret |-> None]

\* ClientFuzzer.get_mutation after `fuzz_node = self._fuzz_path[...].dst`
ClientFuzzer_get_mutation_node(w, stage) ==
    IF ClientFuzzer_should_fuzz_node(w, w.fuzz_path[w.index_in_path + 1], stage)
    THEN ClientFuzzer_get_mutation_notify(
             [w EXCEPT !.last_payload =
                           <<Template_render(w.model, w.fuzz_path, w.index_in_path + 1)>>],
             Template_render(w.model, w.fuzz_path, w.index_in_path + 1))
    ELSE ClientFuzzer_get_mutation_advance(w)

\* ClientFuzzer.get_mutation
ClientFuzzer_get_mutation(w, stage) ==
    IF ~BaseFuzzer_keep_running(w) THEN [obj |-> w, ret |-> None]
    ELSE IF w.fuzz_path = None THEN [obj |-> w, ret |-> TypeError]
    ELSE IF w.index_in_path >= Len(w.fuzz_path) THEN [obj |-> w, ret |-> IndexError]
    ELSE ClientFuzzer_get_mutation_node(w, stage)

\* ClientFuzzer.__init__, set_model, set_range, set_max_failures (0 for None),
\* set_store_all_reports and set_skip_env_test, with a session store that
\* holds the session info stored (None or <<an info>>)
ClientFuzzer_new(model, start_index, end_index, max_failures, store_all_reports, skip_env_test, stored) ==
    [config |-> [store_all_reports |-> store_all_reports, max_failures |-> max_failures],
     session_info |-> [SessionInfo_new EXCEPT !.start_index = start_index,
                                              !.current_index = start_index,
                                              !.end_index = end_index],
     skip_env_test |-> skip_env_test,
     in_environment_test |-> TRUE,
     continue_event |-> TRUE,
     trigger_stop_evt |-> FALSE,
     model |-> model,
     dataman |-> [session_info |-> stored, reports |-> {}],
     log |-> <<>>,
     pc |-> "idle",
     started |-> "",
     stopped |-> FALSE,
     fuzz_path |-> None,
     index_in_path |-> 0,
     last_payload |-> None,
     calls |-> 0]

(***************************************************************************)
(* Fuzzing sessions of a ClientFuzzer                                      *)
(***************************************************************************)
\* the statuses of the reports of the target
Statuses == {"passed", "failed", "error"}

\* the model of the sessions, of MaxMutations mutations
TheModel == Model_new(MaxMutations, 1)

\* what the session store holds before start(): nothing, a session of this
\* model and version that ran its test 1 with a failure, a session of another
\* model, a session of another version
StoredSessions ==
    { None,
      <<[start_index |-> 0, current_index |-> 1, end_index |-> <<MaxMutations - 1>>,
         failure_count |-> 1, kitty_version |-> CurrentVersion, data_model_hash |-> 1]>>,
      <<[start_index |-> 0, current_index |-> 1, end_index |-> <<MaxMutations - 1>>,
         failure_count |-> 1, kitty_version |-> CurrentVersion, data_model_hash |-> 2]>>,
      <<[start_index |-> 0, current_index |-> 1, end_index |-> <<MaxMutations - 1>>,
         failure_count |-> 1, kitty_version |-> "0.6.8", data_model_hash |-> 1]>> }

Sessions ==
    { ClientFuzzer_new(TheModel, start_index, end_index, max_failures, store_all_reports,
                       skip_env_test, stored) :
        start_index \in 0..1, end_index \in {None, <<MaxMutations - 2>>},
        max_failures \in 0..2, store_all_reports \in BOOLEAN, skip_env_test \in BOOLEAN,
        stored \in StoredSessions }

InitFuzzer ==
    /\ fuzzer \in Sessions
    /\ field = None /\ fresh = None
    /\ op = "new" /\ arg = 0 /\ ret = None /\ prev = "other"
    /\ advanced = 0 /\ strict = TRUE /\ curPass = <<>> /\ clean = TRUE
    /\ firstHash = None

\* the variables after a step of the session that leaves it as w
Session(w) ==
    /\ fuzzer' = w
    /\ UNCHANGED <<field, fresh, op, arg, ret, prev, advanced, strict, curPass, clean,
                   firstHash>>

\* fuzzer.start()
Start == fuzzer.started = "" /\ Session(BaseFuzzer_start(fuzzer))

\* the target control thread: _do_trigger up to the end of _check_pause
CheckPause ==
    /\ fuzzer.pc = "check_pause" /\ ~fuzzer.trigger_stop_evt
    /\ Session(BaseFuzzer_check_pause(fuzzer))

\* the target control thread: model.mutate() and _keep_running()
DoMutate == fuzzer.pc = "mutate" /\ Session(ClientFuzzer_do_trigger_mutate(fuzzer))

\* the target control thread: _pre_test()
PreTest == fuzzer.pc = "pre_test" /\ Session(BaseFuzzer_pre_test(fuzzer))

\* the target control thread: target.trigger()
Trigger == fuzzer.pc = "trigger" /\ Session(ClientFuzzer_do_trigger_trigger(fuzzer))

\* the target control thread: _post_test()
PostTest(status) == fuzzer.pc = "post_test" /\ Session(BaseFuzzer_post_test(fuzzer, status))

\* the user pauses the session
Pause ==
    /\ fuzzer.started = "True" /\ ~fuzzer.stopped /\ fuzzer.continue_event
    /\ Session(Interface_pause(fuzzer))

\* the user resumes the session
Resume ==
    /\ fuzzer.started = "True" /\ ~fuzzer.stopped /\ ~fuzzer.continue_event
    /\ Session(Interface_resume(fuzzer))

\* fuzzer.stop(), once the session is over, as the tests call it
Stop ==
    /\ fuzzer.started \in {"True", "False"} /\ fuzzer.pc \in {"idle", "done"}
    /\ Session(ClientFuzzer_stop(fuzzer))

TargetControlThread ==
    \/ CheckPause
    \/ DoMutate
    \/ PreTest
    \/ Trigger
    \/ \E status \in Statuses : PostTest(status)

NextFuzzer ==
    \/ Start
    \/ TargetControlThread
    \/ Pause
    \/ Resume
    \/ Stop

SpecFuzzer == InitFuzzer /\ [][NextFuzzer]_vars

\* the sessions whose control thread is scheduled as long as it can step
SpecFuzzerFair == SpecFuzzer /\ WF_vars(TargetControlThread)

(***************************************************************************)
(* Sessions that SIGINT interrupts                                         *)
(***************************************************************************)
\* SIGINT while the session runs: the handler set by set_signal_handler
Interrupt ==
    /\ fuzzer.started = "True" /\ ~fuzzer.stopped
    /\ fuzzer.pc \notin {"idle", "done"}
    /\ Session(BaseFuzzer_exit_now(fuzzer))

\* the control thread finds its stop event set when _do_trigger has returned
ThreadExit ==
    /\ fuzzer.pc = "check_pause" /\ fuzzer.trigger_stop_evt
    /\ Session(LoopFuncThread_exit(fuzzer))

NextInterrupt ==
    \/ NextFuzzer
    \/ Interrupt
    \/ ThreadExit

SpecInterrupt == InitFuzzer /\ [][NextInterrupt]_vars

(***************************************************************************)
(* Sessions whose target raises in trigger()                               *)
(***************************************************************************)
\* ClientFuzzer._do_trigger, self.target.trigger() raising: nothing in
\* _do_trigger catches, the exception leaves it and ends the control thread
ClientFuzzer_do_trigger_raises(w) ==
    [w EXCEPT !.log = Append(@, [f |-> "trigger", i |-> -1, status |-> "raised"]),
              !.pc = "died"]

\* the target control thread: target.trigger(), which raises
TriggerRaises == fuzzer.pc = "trigger" /\ Session(ClientFuzzer_do_trigger_raises(fuzzer))

NextTargetError ==
    \/ NextFuzzer
    \/ TriggerRaises

SpecTargetError == InitFuzzer /\ [][NextTargetError]_vars

(***************************************************************************)
(* Sessions whose stack asks for mutations                                 *)
(***************************************************************************)
\* the stages the stack of the target names
Stages == {STAGE_ANY, "GET", "post"}

\* the sessions asked for mutations: fresh ones over the whole range that
\* skip the environment test and stop at their first failure
ClientSessions ==
    { w \in Sessions :
        /\ w.skip_env_test /\ ~w.config.store_all_reports
        /\ w.dataman.session_info = None
        /\ w.config.max_failures = 1
        /\ w.session_info.start_index = 0 /\ w.session_info.end_index = None }

InitClient == InitFuzzer /\ fuzzer \in ClientSessions

\* the stack of the target calls fuzzer.get_mutation(stage, data) from its
\* own thread, at any time between start() and stop()
GetMutation(stage) ==
    /\ fuzzer.started = "True" /\ ~fuzzer.stopped
    /\ fuzzer.calls < MaxCalls
    /\ fuzzer' = [ClientFuzzer_get_mutation(fuzzer, stage).obj EXCEPT !.calls = @ + 1]
    /\ op' = "get_mutation"
    /\ arg' = stage
    /\ ret' = ClientFuzzer_get_mutation(fuzzer, stage).ret
    /\ UNCHANGED <<field, fresh, prev, advanced, strict, curPass, clean, firstHash>>

NextClient ==
    \/ NextFuzzer
    \/ \E stage \in Stages : GetMutation(stage)

SpecClient == InitClient /\ [][NextClient]_vars

(***************************************************************************)
(* Sessions that are interrupted and resumed                               *)
(***************************************************************************)
\* the sessions that are resumed and those that resume them: they skip the
\* environment test and differ in the range given to set_range
ResumeSessions ==
    { w \in Sessions :
        /\ w.skip_env_test /\ ~w.config.store_all_reports
        /\ w.dataman.session_info = None /\ w.config.max_failures = 0 }

\* the process of the session w ends where it is and another one begins: a
\* new ClientFuzzer, configured as again, over the session store that w
\* leaves; the log goes on after a mark
ClientFuzzer_again(w, again) ==
    [again EXCEPT !.dataman = w.dataman,
                  !.log = Append(w.log, [f |-> "restart", i |-> -1, status |-> ""])]

\* the session is interrupted, at any point, and a new process takes it up
Restart(again) ==
    /\ fuzzer.started = "True" /\ CallsOf(fuzzer, "restart") = {}
    /\ Session(ClientFuzzer_again(fuzzer, again))

InitResume == InitFuzzer /\ fuzzer \in ResumeSessions

NextResume ==
    \/ NextFuzzer
    \/ \E again \in ResumeSessions : Restart(again)

SpecResume == InitResume /\ [][NextResume]_vars

(***************************************************************************)
(* The test lists of kitty/fuzzers/test_list.py                            *)
(*                                                                         *)
(* A string is the sequence of its characters.  A call returns obj, the    *)
(* list after it, and ret, a record of the value returned (an integer in   *)
(* a sequence of one, None for None) and of the exception raised, if any.  *)
(***************************************************************************)
DigitChars == <<"0", "1", "2", "3", "4", "5", "6", "7", "8", "9">>

\* the character class \d
IsDigit(c) == \E d \in DOMAIN DigitChars : DigitChars[d] = c

DigitValue(c) == (CHOOSE d \in DOMAIN DigitChars : DigitChars[d] = c) - 1

\* '%d' % n
RECURSIVE FormatInt(_)
FormatInt(n) ==
    IF n < 0 THEN <<"-">> \o FormatInt(-n)
    ELSE IF n < 10 THEN <<DigitChars[n + 1]>>
    ELSE FormatInt(n \div 10) \o <<DigitChars[(n % 10) + 1]>>

\* int(str) of a string of digits
RECURSIVE ParseInt(_)
ParseInt(str) ==
    IF Len(str) = 0 THEN 0
    ELSE 10 * ParseInt(SubSeq(str, 1, Len(str) - 1)) + DigitValue(str[Len(str)])

\* the string matches \d+
AllDigits(str) == Len(str) /= 0 /\ \A k \in DOMAIN str : IsDigit(str[k])

\* str.split(','): the pieces between the commas, the piece under way last
RECURSIVE split(_, _)
split(str, piece) ==
    IF Len(str) = 0 THEN <<piece>>
    ELSE IF Head(str) = "," THEN <<piece>> \o split(Tail(str), <<>>)
    ELSE split(Tail(str), Append(piece, Head(str)))

\* str.strip()
RECURSIVE strip(_)
strip(str) ==
    IF Len(str) /= 0 /\ Head(str) = " " THEN strip(Tail(str))
    ELSE IF Len(str) /= 0 /\ str[Len(str)] = " " THEN strip(SubSeq(str, 1, Len(str) - 1))
    ELSE str

\* list(range(start, end + 1))
range_list(start, end) == [k \in 1..(end - start + 1) |-> start + k - 1]

\* sorted(list(as_set))
RECURSIVE sorted(_)
least(as_set) == CHOOSE x \in as_set : \A y \in as_set : x <= y
sorted(as_set) ==
    IF as_set = {} THEN <<>>
    ELSE <<least(as_set)>> \o sorted(as_set \ {least(as_set)})

\* the regular expressions of RangesList._parse, matched from the start of
\* the entry to its end
p_single(entry) == AllDigits(entry)
p_open_left(entry) == Len(entry) /= 0 /\ Head(entry) = "-" /\ AllDigits(Tail(entry))
p_open_right(entry) ==
    Len(entry) /= 0 /\ entry[Len(entry)] = "-" /\ AllDigits(SubSeq(entry, 1, Len(entry) - 1))
dash_of(entry) ==
    { k \in DOMAIN entry : /\ entry[k] = "-"
                           /\ AllDigits(SubSeq(entry, 1, k - 1))
                           /\ AllDigits(SubSeq(entry, k + 1, Len(entry))) }
p_closed(entry) == dash_of(entry) /= {}
closed_start(entry) == ParseInt(SubSeq(entry, 1, (CHOOSE k \in dash_of(entry) : TRUE) - 1))
closed_end(entry) ==
    ParseInt(SubSeq(entry, (CHOOSE k \in dash_of(entry) : TRUE) + 1, Len(entry)))

\* RangesList.__init__ before self._parse()
RangesList_init(ranges_str) ==
    [kind |-> "RangesList", ranges_str |-> ranges_str, list |-> <<>>, idx |-> 0,
     open_end_start |-> None, open_left_found |-> FALSE, open_right_found |-> FALSE,
     exc |-> ""]

\* RangesList._parse: one entry of the range string
RangesList_parse_entry(l, entry) ==
    IF p_single(entry) THEN [l EXCEPT !.list = Append(@, ParseInt(entry))]
    ELSE IF p_open_left(entry)
    THEN (IF l.open_left_found THEN [l EXCEPT !.exc = "KittyException"]
          ELSE [l EXCEPT !.open_left_found = TRUE,
                         !.list = @ \o range_list(0, ParseInt(Tail(entry)))])
    ELSE IF p_open_right(entry)
    THEN (IF l.open_right_found THEN [l EXCEPT !.exc = "KittyException"]
          ELSE [l EXCEPT !.open_right_found = TRUE,
                         !.open_end_start =
                             <<ParseInt(SubSeq(entry, 1, Len(entry) - 1))>>])
    ELSE IF p_closed(entry)
    THEN [l EXCEPT !.list = @ \o range_list(closed_start(entry), closed_end(entry))]
    ELSE [l EXCEPT !.exc = "KittyException"]

\* RangesList._parse: for entry in self._ranges_str.split(',')
RECURSIVE RangesList_parse_entries(_, _)
RangesList_parse_entries(l, entries) ==
    IF Len(entries) = 0 \/ l.exc /= "" THEN l
    ELSE RangesList_parse_entries(RangesList_parse_entry(l, strip(Head(entries))),
                                  Tail(entries))

\* `self._open_end_start and len(self._list) and
\* self._list[-1] >= self._open_end_start`
RangesList_open_end_overlaps(l) ==
    /\ l.open_end_start /= None /\ l.open_end_start[1] /= 0
    /\ Len(l.list) /= 0
    /\ l.list[Len(l.list)] >= l.open_end_start[1]

\* RangesList._parse after the loop
RangesList_parse_check(l) ==
    IF l.exc /= "" THEN l
    ELSE IF Cardinality({ l.list[k] : k \in DOMAIN l.list }) < Len(l.list)
    THEN [l EXCEPT !.exc = "KittyException"]
    ELSE IF RangesList_open_end_overlaps(
                [l EXCEPT !.list = sorted({ l.list[k] : k \in DOMAIN l.list })])
    THEN [l EXCEPT !.exc = "KittyException",
                   !.list = sorted({ l.list[k] : k \in DOMAIN l.list })]
    ELSE [l EXCEPT !.list = sorted({ l.list[k] : k \in DOMAIN l.list })]

\* RangesList._parse
RangesList_parse(l) ==
    IF Len(l.ranges_str) = 0 THEN [l EXCEPT !.open_end_start = <<0>>]
    ELSE RangesList_parse_check(RangesList_parse_entries(l, split(l.ranges_str, <<>>)))

\* RangesList(ranges_str); exc tells that the constructor raised
RangesList_new(ranges_str) == RangesList_parse(RangesList_init(ranges_str))

\* what a call returns: an integer, None, or an exception
Returns(v) == [value |-> <<v>>, exc |-> ""]
ReturnsNone == [value |-> None, exc |-> ""]
Raises(exc) == [value |-> None, exc |-> exc]

\* the truth of what current() returned: None and 0 are false
truthy(r) == r.value /= None /\ r.value[1] /= 0

\* StartEndList(start, end), end being None or <<an index>>
StartEndList_new(start, end) ==
    [kind |-> "StartEndList", start |-> start, end |-> end, current |-> start]

StartEndList_set_last(l, last) ==
    [obj |-> IF l.end = None \/ l.end[1] > last THEN [l EXCEPT !.end = <<last>>] ELSE l,
     ret |-> ReturnsNone]

StartEndList_next(l) ==
    [obj |-> IF l.current < l.end[1] THEN [l EXCEPT !.current = @ + 1] ELSE l,
     ret |-> ReturnsNone]

StartEndList_current(l) ==
    [obj |-> l, ret |-> IF l.current < l.end[1] THEN Returns(l.current) ELSE ReturnsNone]

StartEndList_reset(l) == [obj |-> [l EXCEPT !.current = l.start], ret |-> ReturnsNone]

StartEndList_skip(l, count) == [obj |-> [l EXCEPT !.current = @ + count], ret |-> ReturnsNone]

StartEndList_get_count(l) == [obj |-> l, ret |-> Returns(l.end[1] - l.start)]

StartEndList_get_progress(l) ==
    IF truthy(StartEndList_current(l).ret)
    THEN [obj |-> l, ret |-> Returns(l.current - l.start)]
    ELSE StartEndList_get_count(l)

StartEndList_as_test_list_str(l) ==
    FormatInt(l.start) \o <<"-">> \o (IF l.end /= None THEN FormatInt(l.end[1]) ELSE <<>>)

\* RangesList.set_last
RangesList_set_last(l, last) ==
    IF l.open_end_start /= None
    THEN (IF last < l.open_end_start[1]
          THEN [obj |-> l, ret |-> Raises("KittyException")]
          ELSE [obj |-> [l EXCEPT !.list = @ \o range_list(l.open_end_start[1], last)],
                ret |-> ReturnsNone])
    ELSE IF Len(l.list) = 0 THEN [obj |-> l, ret |-> Raises("IndexError")]
    ELSE IF l.list[Len(l.list)] > last THEN [obj |-> l, ret |-> Raises("KittyException")]
    ELSE [obj |-> l, ret |-> ReturnsNone]

RangesList_next(l) ==
    [obj |-> IF l.idx < Len(l.list) THEN [l EXCEPT !.idx = @ + 1] ELSE l,
     ret |-> ReturnsNone]

RangesList_current(l) ==
    [obj |-> l, ret |-> IF l.idx < Len(l.list) THEN Returns(l.list[l.idx + 1]) ELSE ReturnsNone]

RangesList_reset(l) == [obj |-> [l EXCEPT !.idx = 0], ret |-> ReturnsNone]

RangesList_skip(l, count) == [obj |-> [l EXCEPT !.idx = @ + count], ret |-> ReturnsNone]

RangesList_get_count(l) == [obj |-> l, ret |-> Returns(Len(l.list))]

\* RangesList.get_progress, which reads self._current and self._start, that
\* a RangesList does not have
RangesList_get_progress(l) ==
    IF truthy(RangesList_current(l).ret)
    THEN [obj |-> l, ret |-> Raises("AttributeError")]
    ELSE RangesList_get_count(l)

RangesList_as_test_list_str(l) == l.ranges_str

\* the methods of either test list
set_last(l, last) ==
    IF l.kind = "StartEndList" THEN StartEndList_set_last(l, last)
    ELSE RangesList_set_last(l, last)
next(l) == IF l.kind = "StartEndList" THEN StartEndList_next(l) ELSE RangesList_next(l)
current(l) ==
    IF l.kind = "StartEndList" THEN StartEndList_current(l) ELSE RangesList_current(l)
reset_list(l) == IF l.kind = "StartEndList" THEN StartEndList_reset(l) ELSE RangesList_reset(l)
skip_tests(l, count) ==
    IF l.kind = "StartEndList" THEN StartEndList_skip(l, count) ELSE RangesList_skip(l, count)
get_count(l) ==
    IF l.kind = "StartEndList" THEN StartEndList_get_count(l) ELSE RangesList_get_count(l)
get_progress(l) ==
    IF l.kind = "StartEndList" THEN StartEndList_get_progress(l)
    ELSE RangesList_get_progress(l)

(***************************************************************************)
(* A test list under its calls                                             *)
(***************************************************************************)
\* the entries of the range strings: n, -n, n- and a-b
Entries ==
    { FormatInt(n) : n \in 0..MaxIndex }
    \cup { <<"-">> \o FormatInt(n) : n \in 0..MaxIndex }
    \cup { FormatInt(n) \o <<"-">> : n \in 0..MaxIndex }
    \cup { FormatInt(a) \o <<"-">> \o FormatInt(b) : a \in 0..MaxIndex, b \in 0..MaxIndex }

\* the range strings: empty, of one entry, of two entries, and invalid ones
RangeStrings ==
    { <<>>, <<"1", "-", "-", "2">>, <<"1", ",", " ", "1", "0", "-">> }
    \cup Entries
    \cup { a \o <<",">> \o b : a \in Entries, b \in Entries }

TestLists ==
    { RangesList_new(ranges_str) : ranges_str \in RangeStrings }
    \cup { StartEndList_new(start, None) : start \in 0..MaxIndex }
    \cup { StartEndList_new(r[1], <<r[2]>>) :
             r \in { q \in (0..MaxIndex) \X (0..MaxIndex) : q[1] <= q[2] } }

\* the last index of the model, handed to set_last
Lasts == {MaxIndex - 1, MaxIndex + 1}

InitTestList == Constructed(TestLists)

\* the list exists and can be asked: its constructor did not raise and its
\* end is known
Usable(l) == IF l.kind = "StartEndList" THEN l.end /= None ELSE l.exc = ""

\* the variables after a call on the test list; `advanced` counts the calls
\* of set_last
ListCalled(name, argument, r, set) ==
    /\ field' = r.obj
    /\ op' = name
    /\ arg' = argument
    /\ ret' = r.ret
    /\ advanced' = advanced + set
    /\ UNCHANGED <<fuzzer, fresh, prev, strict, curPass, clean, firstHash>>

ListSetLast(last) ==
    /\ advanced = 0
    /\ field.kind = "RangesList" => field.exc = ""
    /\ ListCalled("set_last", last, set_last(field, last), 1)

\* the calls that follow set_last, which the fuzzer makes first; a call of
\* set_last that raised ends the use of the list
Ready == Usable(field) /\ advanced = 1 /\ (op = "set_last" => ret.exc = "")

ListNext == Ready /\ ListCalled("next", 0, next(field), 0)

ListSkip(count) ==
    /\ Ready /\ current(field).ret.value /= None
    /\ ListCalled("skip", count, skip_tests(field, count), 0)

ListReset == Ready /\ ListCalled("reset", 0, reset_list(field), 0)

ListCurrent == Ready /\ ListCalled("current", 0, current(field), 0)

ListGetCount == Ready /\ ListCalled("get_count", 0, get_count(field), 0)

ListGetProgress == Ready /\ ListCalled("get_progress", 0, get_progress(field), 0)

NextTestList ==
    \/ \E last \in Lasts : ListSetLast(last)
    \/ ListNext
    \/ \E count \in 1..2 : ListSkip(count)
    \/ ListReset
    \/ ListCurrent
    \/ ListGetCount
    \/ ListGetProgress

SpecTestList == InitTestList /\ [][NextTestList]_vars

(***************************************************************************)
(* A StartEndList and the RangesList made of its string, under the same    *)
(* calls                                                                   *)
(***************************************************************************)
RoundTrip(l) == [sel |-> l, rl |-> RangesList_new(StartEndList_as_test_list_str(l))]

RoundTrips ==
    { RoundTrip(StartEndList_new(start, <<end>>)) :
        start \in 0..MaxIndex, end \in 0..MaxIndex }

InitRoundTrip == Constructed({ p \in RoundTrips : p.sel.start <= p.sel.end[1] })

\* the variables after the same call on both lists
BothCalled(name, argument, a, b, set) ==
    /\ field' = [sel |-> a.obj, rl |-> b.obj]
    /\ op' = name
    /\ arg' = argument
    /\ ret' = [sel |-> a.ret, rl |-> b.ret]
    /\ advanced' = advanced + set
    /\ UNCHANGED <<fuzzer, fresh, prev, strict, curPass, clean, firstHash>>

BothSetLast(last) ==
    /\ advanced = 0
    /\ field.rl.exc = ""
    /\ BothCalled("set_last", last, set_last(field.sel, last), set_last(field.rl, last), 1)

BothReady == advanced = 1 /\ (op = "set_last" => ret.rl.exc = "")

BothNext == BothReady /\ BothCalled("next", 0, next(field.sel), next(field.rl), 0)

BothSkip(count) ==
    /\ BothReady
    /\ current(field.sel).ret.value /= None \/ current(field.rl).ret.value /= None
    /\ BothCalled("skip", count, skip_tests(field.sel, count), skip_tests(field.rl, count), 0)

BothReset == BothReady /\ BothCalled("reset", 0, reset_list(field.sel), reset_list(field.rl), 0)

BothCurrent == BothReady /\ BothCalled("current", 0, current(field.sel), current(field.rl), 0)

BothGetCount ==
    BothReady /\ BothCalled("get_count", 0, get_count(field.sel), get_count(field.rl), 0)

NextRoundTrip ==
    \/ \E last \in Lasts : BothSetLast(last)
    \/ BothNext
    \/ \E count \in 1..2 : BothSkip(count)
    \/ BothReset
    \/ BothCurrent
    \/ BothGetCount

SpecRoundTrip == InitRoundTrip /\ [][NextRoundTrip]_vars

(***************************************************************************)
(* The loop of the unit tests                                              *)
(***************************************************************************)
\* the loop of ValueTestCase._get_all_mutations, res being the list so far
RECURSIVE get_all_mutations_loop(_, _)
get_all_mutations_loop(f, res) ==
    LET m == mutate(f)
    IN  IF m.ret
        THEN LET r == render(m.obj)
             IN  get_all_mutations_loop(r.obj, Append(res, r.ret))
        ELSE res

\* ValueTestCase._get_all_mutations: the renderings of `while field.mutate()`
get_all_mutations(f) == get_all_mutations_loop(f, <<>>)

\* StringTests.testMaxSizeMutations: the values that nm_field, the field of
\* the same class and default built without max_size, takes at its mutations
no_max_size_mutations(f) ==
    [n \in 1..num_mutations(String_new(f.kind, f.default_value, None, TRUE)) |->
        Accessor_get(f.kind, String_new(f.kind, f.default_value, None, TRUE).lib, n - 1)]

\* the fields of the container n that are not containers, in declaration
\* order, those of the containers inside it in their place
RECURSIVE plain_fields(_, _)
RECURSIVE plain_fields_from(_, _, _)
plain_fields_from(h, n, k) ==
    IF k > Len(h[n].fields) THEN <<>>
    ELSE plain_fields(h, h[n].fields[k]) \o plain_fields_from(h, n, k + 1)

plain_fields(h, n) ==
    IF h[n].kind = "Container" THEN plain_fields_from(h, n, 1) ELSE <<n>>

\* sum(values[from:to]) of Bits, Bits() when there is none
RECURSIVE sum_bits(_, _, _)
sum_bits(values, from, to) ==
    IF from > to THEN <<>> ELSE values[from] \o sum_bits(values, from + 1, to)

\* ContainerTest._test_fields: field_default_values, and fields_mutations
\* from the k-th of all_fields on
RECURSIVE fields_mutations_from(_, _, _)
fields_mutations_from(all_fields, field_default_values, k) ==
    IF k > Len(all_fields) THEN <<>>
    ELSE LET prefix    == sum_bits(field_default_values, 1, k - 1)
             postfix   == sum_bits(field_default_values, k + 1, Len(all_fields))
             mutations == get_all_mutations(render(all_fields[k]).obj)
         IN  [m \in 1..Len(mutations) |-> prefix \o mutations[m] \o postfix]
             \o fields_mutations_from(all_fields, field_default_values, k + 1)

fields_mutations(all_fields) ==
    fields_mutations_from(all_fields,
                          [k \in 1..Len(all_fields) |-> render(all_fields[k]).ret], 1)

(***************************************************************************)
(* Properties                                                              *)
(***************************************************************************)
\* C1: total enumeration.  Since construction or the last reset(), a mutate()
\* that returns True is at most the num_mutations()-th mutation consumed, and
\* a mutate() that returns False comes when exactly num_mutations() of them
\* were consumed: exactly num_mutations() calls succeed and every further
\* call fails until the next reset(), whatever render(), hash() or
\* set_session_data() calls are interleaved (a skip(n) counts for the
\* mutations it consumed).
C1_TotalEnumeration ==
    op = "mutate" =>
        IF ret THEN advanced <= num_mutations(field)
        ELSE advanced = num_mutations(field)

\* a pass of at least three mutations is over: mutate() returned False
C1_Witness ==
    /\ op = "mutate" /\ ret = FALSE
    /\ advanced >= 3
    /\ strict

\* C2: skip equivalence.  Whatever was done to the field, for every i in
\* [0, num_mutations()], reset(); skip(i); render() returns the bits that
\* reset(); mutate() i times; render() returns (BaseField.skip is that loop
\* of i calls to mutate()).
C2_SkipEquivalence ==
    \A i \in 0..num_mutations(field) :
        render(skip(reset(field), i).obj).ret
            = render(BaseField_skip(reset(field), i).obj).ret

\* the default rendering of a field: the encoder applied to the declared
\* default value, and for a calculated field, which declares none, to the
\* value calculated from the default rendering of the field it depends on
DeclaredDefaultRendered(f) ==
    IF f.kind \in CalculatedKinds
    THEN BitFieldBinEncoder_encode(
             Max(Min(Size_calc_func(f.field.default_rendered), f.bit_field.max_value),
                 f.bit_field.min_value),
             f.bit_field.length, f.bit_field.signed)
    ELSE encode_value(f, f.default_value)

\* C3: default invariance.  A render() that directly follows a reset()
\* returns the encoder applied to the declared default value of the field
\* as constructed, whatever mutate / skip / render / set_session_data calls
\* came before the reset().
C3_DefaultInvariance ==
    (op = "render" /\ prev \in {"reset", "reset of a used object"})
        => ret = DeclaredDefaultRendered(fresh)

\* render() directly after the reset() of an object that had been mutated
\* or given session data
C3_Witness ==
    /\ op = "render" /\ prev = "reset of a used object"
    /\ field.current_rendered = DeclaredDefaultRendered(fresh)

\* C4: idempotent render.  A render() that directly follows a render()
\* returns the same bits.
C4_IdempotentRender == [][(op = "render" /\ op' = "render") => ret' = ret]_vars

\* C5: index invariant.  In every reachable state current_index is -1 or
\* lies in [0, num_mutations()), and a mutate() that returns False leaves
\* current_index as it was.
C5_IndexInvariant ==
    /\ [](field.current_index = -1
            \/ (0 <= field.current_index /\ field.current_index < num_mutations(field)))
    /\ [][(op' = "mutate" /\ ret' = FALSE)
             => field'.current_index = field.current_index]_vars

\* mutate() returned False on a field that a skip(n) with n beyond what
\* remained had taken to its last index
C5_Witness ==
    /\ op = "mutate" /\ ret = FALSE
    /\ ~strict
    /\ num_mutations(field) > 0
    /\ field.current_index = num_mutations(field) - 1

\* C6: skip(n) returns min(n, mutations remaining before the call); after it
\* exactly (remaining before the call - returned value) further mutate()
\* calls succeed (BaseField.skip with a count beyond the end is the loop
\* `while mutate()` counting them).  advanced counts the mutations consumed
\* since construction or reset(), the skipped ones included.
C6_SkipReturn ==
    op = "skip" =>
        LET N == num_mutations(field)
            remaining == N - (advanced - ret)
        IN  /\ ret = Min(arg, remaining)
            /\ BaseField_skip(field, N + 1).ret = remaining - ret

\* a skip(n) with n > 0 that was cut short, by a field with mutations left
\* before the call, after a reset()
C6_Witness ==
    /\ op = "skip" /\ arg > ret /\ ret > 0
    /\ prev = "reset of a used object"

\* C7: in a loop of mutate(), render() run from construction or reset(), the
\* rendering of each successful mutate() differs from the renderings of the
\* ones before it, for every field whose mutations do not come from the
\* random generator.
C7_AllDifferent ==
    (clean /\ strict /\ op = "render" /\ field.kind \notin RandomKinds)
        => \A i \in 1..(Len(curPass) - 1) : curPass[i] /= curPass[Len(curPass)]

\* C8: same result after reset.  In a loop of mutate(), render() started by
\* reset() after complete such loops, each rendering is the one the first
\* loop gave at the same position (the first loop is the one run on the
\* object as constructed).
C8_SameResultAfterReset ==
    (clean /\ strict /\ op = "render")
        => LET first == get_all_mutations(fresh)
           IN  /\ Len(curPass) <= Len(first)
               /\ ret = first[Len(curPass)]

\* C9: every hash() of an object returns what its first hash() returned,
\* whatever was called in between.
C9_HashStable == op = "hash" => ret = firstHash

\* hash() of a Dynamic field at its last mutation, whose first hash() was
\* made before the field was first mutated or rendered (that first value is
\* the one an object just constructed returns)
C9_Witness ==
    /\ op = "hash" /\ ret = firstHash
    /\ field.kind = "Dynamic"
    /\ ret = hash(fresh).ret
    /\ field.current_index = num_mutations(field) - 1
    /\ field.current_index > 0

\* C10: hash() is a function of the construction parameters: whatever was
\* called on the object before, hash() returns what hash() returns on an
\* object just constructed with the same parameters.
C10_HashOfParameters == op = "hash" => ret = hash(fresh).ret

\* C12: the 8-bit unsigned BitField of default 0 renders 0x00 by default and
\* 0x01 after exactly one mutate() from reset(): mutation 0 is the default
\* with its first bit flipped.
C12_FirstBitFlipped ==
    (fresh = BitField_new(0, 8, FALSE, None, None, TRUE) /\ op = "render") =>
        /\ field.current_index = -1 => ret = <<0, 0, 0, 0, 0, 0, 0, 0>>
        /\ field.current_index = 0 => ret = <<0, 0, 0, 0, 0, 0, 0, 1>>

\* C13: every value a BitField takes while mutating lies within
\* [min_value, max_value], whatever length, signedness, default, min_value
\* and max_value it was constructed with.
C13_ValueInRange ==
    (field.kind = "BitField" /\ mutating(field)) =>
        /\ field.min_value <= field.current_value
        /\ field.current_value <= field.max_value

\* the last mutation of a field of the longest length whose min_value and
\* max_value were both given, inside the range of the length
C13_Witness ==
    /\ field.kind = "BitField" /\ field.length = BitFieldLength /\ ~field.signed
    /\ field.min_value > 0 /\ field.max_value < Pow2(BitFieldLength) - 1
    /\ op = "mutate" /\ ret = TRUE
    /\ field.current_index = num_mutations(field) - 1
    /\ field.current_index >= 2

\* C14: with kitty_integers.txt present when the class library is built,
\* every integer of the file that lies in [min_value, max_value] of a
\* BitField is among the renderings of a whole pass over its mutations.
C14_IntsFromFile ==
    (field.kind = "BitField" /\ strict /\ op = "mutate" /\ ret = FALSE) =>
        \A k \in 1..Len(kitty_integers) :
            (field.min_value <= kitty_integers[k] /\ kitty_integers[k] <= field.max_value)
            => \E n \in 1..Len(curPass) :
                   curPass[n] = encode_value(field, kitty_integers[k])

\* C15: for a String or Delimiter built with max_size = m, a whole pass over
\* its mutations renders exactly the mutations of the same field built
\* without max_size, those longer than m bytes removed and the others in
\* their order, and num_mutations() is the number of those that remain.
C15_MaxSizeFilter ==
    (/\ field.kind \in {"String", "Delimiter"}
     /\ Len(field.max_size) /= 0 /\ field.fuzzable
     /\ strict /\ op = "mutate" /\ ret = FALSE) =>
        LET kept == SelectSeq(no_max_size_mutations(field),
                              LAMBDA v : Len(v) <= field.max_size[1])
        IN  /\ curPass = [n \in 1..Len(kept) |-> StrEncoder_encode(kept[n])]
            /\ num_mutations(field) = Len(kept)

\* the pass over String('%s', max_size=MaxSize) is over, some mutations were
\* kept and some were of exactly max_size bytes
C15_Witness ==
    /\ field.kind = "String" /\ field.default_value = <<37, 115>>
    /\ Len(field.max_size) /= 0
    /\ strict /\ op = "mutate" /\ ret = FALSE
    /\ Len(curPass) >= 3
    /\ \E n \in 1..Len(curPass) : Len(curPass[n]) = 8 * field.max_size[1]

\* C20: ENC_BITS_BYTE_ALIGNED makes its input byte aligned: the rendering of
\* a value of n bits has the smallest multiple of 8 that is >= n as its
\* length, starts with the value and ends with zero bits only.
C20_ByteAligned ==
    (field.kind = "RandomBits" /\ field.encoder = "ENC_BITS_BYTE_ALIGNED"
     /\ op = "render") =>
        /\ Len(ret) = 8 * ((Len(field.current_value) + 7) \div 8)
        /\ SubSeq(ret, 1, Len(field.current_value)) = field.current_value
        /\ \A k \in (Len(field.current_value) + 1)..Len(ret) : ret[k] = 0

\* C19: rendering a fuzzable calculated-int field does not fail: at every
\* mutation step and for every value of the dependency, the value handed to
\* the encoder of the backing BitField lies within its [min_value,
\* max_value], and render() returns bits.
C19_RenderDoesNotFail ==
    (field.kind \in CalculatedKinds /\ field.fuzzable /\ op = "render") =>
        /\ field.bit_field.min_value <= field.bit_field.current_value
        /\ field.bit_field.current_value <= field.bit_field.max_value
        /\ ret /= EncodeError

\* C11: a container enumerates the mutations of its children in declaration
\* order.  In every container at most one field is mutating at any time and
\* num_mutations() is the sum of the num_mutations() of the fields; and a
\* loop `while container.mutate(): container.render()` that ran until
\* mutate() returned False has rendered, for each field in turn, every
\* mutation of that field between the default renderings of the fields
\* before and after it, as ContainerTest._test_fields computes them from the
\* fields on their own.
C11_ContainerStream ==
    LET all_fields == [k \in 1..Len(plain_fields(fresh, "root")) |->
                          fresh[plain_fields(fresh, "root")[k]]]
    IN  /\ Cardinality({ n \in DOMAIN field :
                           field[n].kind /= "Container" /\ mutating(field[n]) }) <= 1
        /\ \A n \in DOMAIN field :
             field[n].kind = "Container" =>
               /\ Cardinality({ k \in 1..Len(field[n].fields) :
                                  mutating(field[field[n].fields[k]]) }) <= 1
        /\ (clean /\ strict /\ op = "mutate" /\ ret = FALSE) =>
             /\ curPass = fields_mutations(all_fields)
             /\ Tree_num_mutations(field, "root") = Len(curPass)
             /\ Len(curPass) =
                  Len(sum_bits([k \in 1..Len(all_fields) |->
                                   Repeat(<<1>>, num_mutations(all_fields[k]))],
                               1, Len(all_fields)))

\* a container whose loop has rendered mutations of two of its fields
C11_Witness ==
    /\ clean /\ strict /\ op = "mutate" /\ ret = FALSE
    /\ Len(curPass) > 3
    /\ \E i \in 1..Len(curPass), j \in 1..Len(curPass) :
         /\ curPass[i] /= curPass[j]
         /\ curPass[i] /= Tree_render(fresh, "root", RenderContext_new(<<>>, {})).ret
    /\ Cardinality({ n \in DOMAIN fresh : fresh[n].kind /= "Container"
                                          /\ num_mutations(fresh[n]) > 0 }) >= 2

\* C16: a Size field that is not fuzzable, of width W over the field D: when
\* the Size or the container around it has been rendered, at any mutation
\* of the tree, the rendering of the Size is the W-bit encoding of the length
\* in bytes of the rendering of D, saturated to [0, 2^W - 1], with the Size
\* declared before D or after it.
C16_SizeOfDependency ==
    (op = "render" /\ arg \in {"size", "root"}) =>
        LET size == field["size"]
            W == size.bit_field.length
            D == field[size.field_name[1]]
            bytes == Len(D.current_rendered) \div 8
        IN  /\ ret /= EncodeError /\ ret /= RecursionError
            /\ size.current_rendered =
                   UintBits(IF bytes > Pow2(W) - 1 THEN Pow2(W) - 1 ELSE bytes, W)
            /\ arg = "size" => ret = size.current_rendered

\* the Size is rendered while the field it sizes, declared after it, is at a
\* mutation longer than the Size can hold
C16_Witness ==
    /\ op = "render" /\ arg = "root"
    /\ field["root"].fields = <<"size", "depends_on">>
    /\ field["depends_on"].kind /= "Container" /\ mutating(field["depends_on"])
    /\ Len(field["depends_on"].current_rendered) \div 8
         > Pow2(field["size"].bit_field.length) - 1
    /\ ret = field["size"].current_rendered \o field["depends_on"].current_rendered

\* C17: inclusive size.  A Size field of width W over the container that
\* holds it renders W bits whose value is the length in bytes of the whole
\* rendering of the container, the Size included (a container that holds
\* only a Size of W bits renders W / 8), and the render of the Size nested in
\* the render of the container returns W zero bits.
C17_InclusiveSize ==
    (op = "render" /\ arg = "root" /\ field["size"].field_name = <<"root">>) =>
        LET size == field["size"]
            W == size.bit_field.length
            fields == field["root"].fields
            nested == sum_bits([k \in 1..Len(fields) |->
                                   IF fields[k] = "size" THEN ZeroBits(W)
                                   ELSE field[fields[k]].current_rendered],
                               1, Len(fields))
        IN  /\ Len(size.current_rendered) = W
            /\ size.current_rendered = UintBits(Len(ret) \div 8, W)
            /\ size.rendered_field = nested
            /\ Len(fields) = 1 => size.current_rendered = UintBits(W \div 8, W)

\* the container that holds only a Size over itself has been rendered
C17_Witness ==
    /\ op = "render" /\ arg = "root" /\ field["size"].field_name = <<"root">>
    /\ field["root"].fields = <<"size">>
    /\ ret = UintBits(field["size"].bit_field.length \div 8, field["size"].bit_field.length)
    /\ ret /= ZeroBits(Len(ret))

\* C18: render() terminates on every tree, whatever the calculated fields
\* depend on (the container around them, themselves, each other): no call of
\* render() ends in a recursion without end.
C18_RenderTerminates == op = "render" => ret /= RecursionError

C21_WitnessSigned == op = "encode" /\ field.signed /\ ret = KittyException

\* the session store holds a session of another template hash or of another
\* engine version
SessionIncompatible(w) ==
    /\ Len(w.dataman.session_info) /= 0
    /\ \/ w.dataman.session_info[1].data_model_hash /= w.model.hash
       \/ w.dataman.session_info[1].kitty_version /= CurrentVersion

\* C22: when the session store holds a session whose template hash or engine
\* version differs from the current one, start() fails before any operation
\* of the target is invoked and leaves the stored session info as it was
C22_SessionCompatibility ==
    [][Start /\ SessionIncompatible(fuzzer)
       => /\ fuzzer'.started = "KittyException"
          /\ fuzzer'.log = <<>>
          /\ fuzzer'.dataman = fuzzer.dataman
          /\ fuzzer'.pc = "idle"]_vars

\* start() was called over a stored session of another template hash and failed
C22_Witness ==
    /\ fuzzer.started = "KittyException"
    /\ fuzzer.dataman.session_info /= None
    /\ fuzzer.dataman.session_info[1].data_model_hash /= fuzzer.model.hash

\* start() was called over a stored session of another engine version and failed
C22_WitnessVersion ==
    /\ fuzzer.started = "KittyException"
    /\ fuzzer.dataman.session_info /= None
    /\ fuzzer.dataman.session_info[1].kitty_version /= CurrentVersion

\* C23: during one session of a ClientFuzzer, target.setup() is invoked
\* exactly once, before the first pre_test, and target.teardown() exactly
\* once, after the last post_test
C23_TargetLifecycle ==
    /\ Cardinality(CallsOf(fuzzer, "setup")) <= 1
    /\ Cardinality(CallsOf(fuzzer, "teardown")) <= 1
    /\ fuzzer.started = "True" => Cardinality(CallsOf(fuzzer, "setup")) = 1
    /\ fuzzer.started = "True" /\ fuzzer.stopped
           => Cardinality(CallsOf(fuzzer, "teardown")) = 1
    /\ \A s \in CallsOf(fuzzer, "setup") : \A p \in CallsOf(fuzzer, "pre_test") : s < p
    /\ \A t \in CallsOf(fuzzer, "teardown") : \A p \in CallsOf(fuzzer, "post_test") : p < t

\* the calls of the fuzzing loop in the log of the session: those after the
\* calls of start(), stop() left out
TestLog(w) ==
    SelectSeq(SubSeq(w.log,
                     1 + Cardinality({ k \in DOMAIN w.log :
                                         \E s \in CallsOf(w, "setup") : k <= s }),
                     Len(w.log)),
              LAMBDA e : e.f /= "teardown")

\* the calls of one test, in their order
Protocol == <<"mutate", "pre_test", "trigger", "post_test", "get_report", "set_session_info">>

\* C24: for every test the driver calls, in this order and without overlap
\* with another test, model.mutate(), target.pre_test(i), target.trigger(),
\* target.post_test(i), target.get_report(), then persists the session
\* info; i is the current index of the model, the same in pre_test and
\* post_test, and strictly increases from one test to the next
C24_PerTestProtocol ==
    LET body == TestLog(fuzzer) IN
    /\ \A k \in DOMAIN body :
          LET first == k - ((k - 1) % Len(Protocol)) IN
          /\ body[k].f = Protocol[k - first + 1]
          /\ body[k].f /= "trigger" => body[k].i = body[first].i
          /\ first > Len(Protocol) => body[first].i > body[first - Len(Protocol)].i
    /\ fuzzer.pc \in {"pre_test", "trigger", "post_test"}
           => /\ Len(body) % Len(Protocol) = CASE fuzzer.pc = "pre_test" -> 1
                                               [] fuzzer.pc = "trigger" -> 2
                                               [] fuzzer.pc = "post_test" -> 3
              /\ body[Len(body)].i \in {-1, fuzzer.model.current_index}
              /\ body[Len(body) - ((Len(body) - 1) % Len(Protocol))].i
                     = fuzzer.model.current_index
    /\ fuzzer.pc \notin {"pre_test", "trigger", "post_test"}
           => Len(body) % Len(Protocol) = 0
    /\ Len(body) /= 0 /\ fuzzer.pc \in {"check_pause", "paused"}
           => /\ fuzzer.dataman.session_info[1].current_index = body[Len(body)].i
              /\ fuzzer.model.current_index = body[Len(body)].i

\* a session ran three tests, each by the protocol, and was stopped
C24_Witness ==
    /\ fuzzer.stopped
    /\ Len(TestLog(fuzzer)) = 3 * Len(Protocol)
    /\ TestLog(fuzzer)[2 * Len(Protocol) + 2] = [f |-> "pre_test", i |-> 2, status |-> ""]

\* the indices handed to pre_test, in the order of the calls
TestsRun(w) ==
    LET calls == SelectSeq(w.log, LAMBDA e : e.f = "pre_test")
    IN  [k \in DOMAIN calls |-> calls[k].i]

\* the index a session starts at: the start index of its range, or the
\* current index of the session it resumes, which start() stored first
FirstIndex(w) == Max(w.dataman.session_info[1].start_index, w.log[1].i)

\* C25: a session of a range start..end (end defaulting to the last index of
\* the model) that is not cut short by max_failures runs exactly one test
\* for every index from start to end inclusive, and when it finishes the
\* stored current_index equals end
C25_RangeCoverage ==
    /\ fuzzer.started = "True"
    /\ fuzzer.pc \in {"done", "stopped"}
    /\ fuzzer.config.max_failures = 0
    => LET end == fuzzer.dataman.session_info[1].end_index[1] IN
       /\ TestsRun(fuzzer) = [k \in 1..(end - FirstIndex(fuzzer) + 1)
                                 |-> FirstIndex(fuzzer) + k - 1]
       /\ fuzzer.dataman.session_info[1].current_index = end

\* the number of the completed tests whose report was not 'passed'
NotPassed(w) ==
    Cardinality({ k \in CallsOf(w, "get_report") : w.log[k].status /= "passed" })

\* C26: at every point of the fuzzing loop failure_count equals its value at
\* the start of the session plus the number of the completed tests whose
\* report was not 'passed': every step of a started session adds to it the
\* number of such tests the step completed, so it never decreases
C26_FailureAccounting ==
    [][fuzzer.started = "True"
       => /\ fuzzer'.session_info.failure_count - fuzzer.session_info.failure_count
                 = NotPassed(fuzzer') - NotPassed(fuzzer)
          /\ fuzzer'.session_info.failure_count >= fuzzer.session_info.failure_count
          /\ fuzzer'.pc = "check_pause"
                 => fuzzer'.dataman.session_info[1].failure_count
                        = fuzzer'.session_info.failure_count]_vars

\* a session that started at no failure ran a test that passed, one that
\* failed and one whose report was an error, and counts two failures
C26_Witness ==
    /\ fuzzer.session_info.failure_count = 2
    /\ \E a, b, c \in CallsOf(fuzzer, "get_report") :
          /\ fuzzer.log[a].status = "passed"
          /\ fuzzer.log[b].status = "failed"
          /\ fuzzer.log[c].status = "error"

\* the reports a session has to have stored: those of the tests executed
\* whose status was not 'passed', or of all the tests executed
ReportsDue(w) ==
    { [i |-> w.log[k].i, status |-> w.log[k].status] :
        k \in { c \in CallsOf(w, "get_report") :
                  w.log[c].status /= "passed" \/ w.config.store_all_reports } }

\* C27: a report is stored under test index i if and only if test i was
\* executed and its report was not 'passed' or store_all_reports is set;
\* with store_all_reports unset the ids of the stored reports are exactly
\* the indices of the failed tests
C27_ReportStorage ==
    /\ fuzzer.dataman.reports = ReportsDue(fuzzer)
    /\ ~fuzzer.config.store_all_reports
           => { r.i : r \in fuzzer.dataman.reports }
                  = { fuzzer.log[k].i :
                        k \in { c \in CallsOf(fuzzer, "get_report") :
                                  fuzzer.log[c].status /= "passed" } }

\* a finished session without store_all_reports ran a test that passed and
\* two that did not, and holds the reports of the two
C27_Witness ==
    /\ fuzzer.stopped /\ ~fuzzer.config.store_all_reports
    /\ Cardinality(CallsOf(fuzzer, "get_report")) = 3
    /\ { r.i : r \in fuzzer.dataman.reports } = {0, 2}

\* a finished session with store_all_reports holds the reports of the tests
\* that passed too
C27_WitnessAll ==
    /\ fuzzer.stopped /\ fuzzer.config.store_all_reports
    /\ fuzzer.dataman.reports = { [i |-> 0, status |-> "passed"], [i |-> 1, status |-> "failed"],
                                  [i |-> 2, status |-> "passed"] }

\* C28: with max_failures = m > 0, once failure_count has reached m the
\* driver issues no further pre_test or trigger; the test of the m-th
\* failure still gets its post_test and its report stored; failure_count
\* never exceeds m in a session that started at no more than m
C28_MaxFailures ==
    [][fuzzer.config.max_failures > 0 /\ fuzzer.started = "True"
       => /\ fuzzer.session_info.failure_count >= fuzzer.config.max_failures
                 => /\ CallsOf(fuzzer', "pre_test") = CallsOf(fuzzer, "pre_test")
                    /\ CallsOf(fuzzer', "trigger") = CallsOf(fuzzer, "trigger")
          /\ (/\ fuzzer.session_info.failure_count < fuzzer.config.max_failures
              /\ fuzzer'.session_info.failure_count >= fuzzer.config.max_failures)
                 => /\ fuzzer'.session_info.failure_count = fuzzer.config.max_failures
                    /\ Len(fuzzer'.log) = Len(fuzzer.log) + 3
                    /\ fuzzer'.log[Len(fuzzer.log) + 1]
                           = [f |-> "post_test", i |-> fuzzer.model.current_index, status |-> ""]
                    /\ \E r \in fuzzer'.dataman.reports :
                          r.i = fuzzer.model.current_index /\ r.status /= "passed"
          /\ fuzzer'.session_info.failure_count
                 <= Max(fuzzer.session_info.failure_count, fuzzer.config.max_failures)]_vars

\* a session of max_failures 2 over the tests 0..2 ended after the second
\* failure, at test 1
C28_Witness ==
    /\ fuzzer.config.max_failures = 2 /\ fuzzer.session_info.failure_count = 2
    /\ fuzzer.pc = "done"
    /\ TestsRun(fuzzer) = <<0, 1>>
    /\ fuzzer.session_info.end_index = <<3>>
    /\ { r.i : r \in fuzzer.dataman.reports } = {0, 1}

\* C29: when the environment test is not skipped, start() performs exactly
\* one pristine iteration (pre_test, delivery, post_test, with the model at
\* its default) before the fuzzing loop, enters the loop and returns True
\* if the report of that iteration is 'passed', and aborts without any fuzz
\* test otherwise
C29_EnvironmentTest ==
    ~fuzzer.skip_env_test /\ fuzzer.started \in {"True", "False"}
    => \E k \in CallsOf(fuzzer, "pre_test") :
          /\ \A c \in CallsOf(fuzzer, "pre_test") \cup CallsOf(fuzzer, "mutate") : k <= c
          /\ Len(fuzzer.log) >= k + 3
          /\ fuzzer.log[k + 1].f = "trigger"
          /\ fuzzer.log[k + 2].f = "post_test"
          /\ fuzzer.log[k + 3].f = "get_report"
          /\ fuzzer.started = "True" <=> fuzzer.log[k + 3].status = "passed"
          /\ fuzzer.started = "False" => CallsOf(fuzzer, "mutate") = {}

\* a test is under way: the iteration is past its pause check and has
\* mutated the model
InTest(w) == w.pc \in {"pre_test", "trigger", "post_test"}

\* C30: the continue event is consulted at the top of each iteration; an
\* iteration that finds it cleared at its pause check neither mutates the
\* model nor calls pre_test until the event is set again; a test past the
\* check always runs to its post_test; after the event is set the loop
\* continues with the next index, none skipped or repeated by pausing
C30_Pause ==
    /\ [][/\ fuzzer.pc = "check_pause" /\ fuzzer'.pc /= "check_pause"
             => /\ fuzzer'.pc = IF fuzzer.continue_event THEN "mutate" ELSE "paused"
                /\ fuzzer'.model = fuzzer.model /\ fuzzer'.log = fuzzer.log
          /\ fuzzer'.model /= fuzzer.model \/ Len(fuzzer'.log) > Len(fuzzer.log)
             => \/ fuzzer.pc \notin {"check_pause", "paused"}
                \/ fuzzer'.stopped
          /\ fuzzer.pc = "paused"
             => /\ fuzzer'.model = fuzzer.model /\ fuzzer'.log = fuzzer.log
                /\ fuzzer'.pc = IF fuzzer'.continue_event THEN "mutate" ELSE "paused"
          /\ fuzzer.pc = "mutate" /\ fuzzer'.pc /= "mutate"
             => /\ fuzzer'.pc \in {"pre_test", "done"}
                /\ fuzzer'.pc = "pre_test"
                       => fuzzer'.model.current_index = fuzzer.model.current_index + 1
          /\ InTest(fuzzer)
             => fuzzer'.model = fuzzer.model /\ fuzzer'.pc /= "paused"]_vars
    /\ [](InTest(fuzzer) \/ fuzzer.pc = "mutate" => ENABLED TargetControlThread)
    /\ [](\A k \in DOMAIN TestsRun(fuzzer) :
              k > 1 => TestsRun(fuzzer)[k] = TestsRun(fuzzer)[k - 1] + 1)
    /\ (InTest(fuzzer) ~> fuzzer.pc = "check_pause")
    /\ (fuzzer.pc = "mutate" ~> InTest(fuzzer) \/ fuzzer.pc = "done")

\* the iteration after the test of index 0 found the event cleared at its
\* pause check and waits, the model still at index 0
C30_Witness ==
    /\ fuzzer.pc = "paused" /\ ~fuzzer.continue_event
    /\ TestsRun(fuzzer) = <<0>> /\ fuzzer.model.current_index = 0

\* the event was cleared while a test is under way, which goes on
C30_WitnessInTest ==
    /\ fuzzer.pc = "trigger" /\ ~fuzzer.continue_event
    /\ TestsRun(fuzzer) = <<0, 1>>

\* C31: on SIGINT and on stop(), target.teardown() happens only at an
\* iteration boundary: under every interleaving of the signal handler with
\* the trigger thread, teardown is never invoked between a pre_test(i) and
\* its post_test(i)
C31_CooperativeCancellation ==
    \A t \in CallsOf(fuzzer, "teardown") :
        Cardinality({ k \in CallsOf(fuzzer, "pre_test") : k < t })
            = Cardinality({ k \in CallsOf(fuzzer, "post_test") : k < t })

\* C32: if target.trigger() raises during test i, the error is recorded into
\* the report of test i with a status that is not 'passed', post_test(i) is
\* still invoked, and the session info is still persisted for index i: once
\* the control thread is out of the test, all of it has happened
C32_TargetErrors ==
    \A k \in CallsOf(fuzzer, "trigger") :
        fuzzer.log[k].status = "raised" /\ ~InTest(fuzzer)
        => /\ \E p \in CallsOf(fuzzer, "post_test") :
                 p > k /\ fuzzer.log[p].i = fuzzer.log[k - 1].i
           /\ \E r \in fuzzer.dataman.reports :
                 r.i = fuzzer.log[k - 1].i /\ r.status /= "passed"
           /\ \E c \in CallsOf(fuzzer, "set_session_info") :
                 c > k /\ fuzzer.log[c].i = fuzzer.log[k - 1].i

\* the step is a call of get_mutation
GetMutationCalled == op' = "get_mutation" /\ fuzzer'.calls = fuzzer.calls + 1

\* what get_mutation returned is a payload
IsPayload(r) == r /= None /\ r /= TypeError /\ r /= IndexError

\* C33: get_mutation(stage, data) returns a payload only if stage is the
\* STAGE_ANY wildcard or equals, case-insensitively, the name of the last
\* node of the current fuzz path; it returns None whenever _keep_running()
\* is false
C33_StageMatching ==
    [][GetMutationCalled
       => /\ IsPayload(ret')
                 => \/ arg' = STAGE_ANY
                    \/ lower(arg') = lower(fuzzer.fuzz_path[Len(fuzzer.fuzz_path)])
          /\ ~BaseFuzzer_keep_running(fuzzer) => ret' = None]_vars

\* in test 1, of the path Get, Post, the stage 'post' was given the mutation
\* of Post
C33_Witness ==
    /\ op = "get_mutation" /\ arg = "post" /\ ret = << <<1>> >>
    /\ fuzzer.fuzz_path = <<"Get", "Post">> /\ fuzzer.index_in_path = 1

\* max_failures being reached, the wildcard stage was given None
C33_WitnessStopped ==
    /\ op = "get_mutation" /\ arg = STAGE_ANY /\ ret = None
    /\ fuzzer.config.max_failures = 1 /\ fuzzer.session_info.failure_count = 1
    /\ fuzzer.model.current_index < fuzzer.session_info.end_index[1]

\* C34: whenever get_mutation returns a payload, under the STAGE_ANY
\* wildcard at any place of a fuzz path of two nodes or more too, the
\* payload is the rendering of the last node of the current fuzz path,
\* never that of an earlier node
C34_PayloadOfLastNode ==
    [][GetMutationCalled /\ IsPayload(ret')
       => ret'[1] = Template_render(fuzzer.model, fuzzer.fuzz_path,
                                    Len(fuzzer.fuzz_path))]_vars

\* C35: under every interleaving of the trigger thread with the callers of
\* get_mutation, from start() to stop(), whenever get_mutation reads
\* self._fuzz_path[self._index_in_path] the path is set and the index is
\* within it: get_mutation never raises
C35_GetMutationNeverRaises ==
    op = "get_mutation" => ret /= TypeError /\ ret /= IndexError

\* the number of calls of target.signal_mutated()
Signalled(w) == Cardinality(CallsOf(w, "signal_mutated"))

\* C36: every call of get_mutation that returns a payload, a mutation that
\* renders to zero bytes too, records it as _last_payload and invokes
\* target.signal_mutated() exactly once; a call that returns None invokes
\* it zero times
C36_SignalMutated ==
    [][GetMutationCalled
       => /\ IsPayload(ret')
                 => /\ fuzzer'.last_payload = ret'
                    /\ Signalled(fuzzer') = Signalled(fuzzer) + 1
          /\ ret' = None => Signalled(fuzzer') = Signalled(fuzzer)]_vars

\* the calls of the log of w that come after the session was taken up again
AfterRestart(w, f) == { k \in CallsOf(w, f) : \E r \in CallsOf(w, "restart") : r < k }

\* start() over a stored session takes the stored range and index and leaves
\* aside those given through set_range
C37_StoredRange ==
    [][Start /\ SessionStored(fuzzer) /\ ~SessionIncompatible(fuzzer)
       => /\ fuzzer'.started = "True"
          /\ fuzzer'.session_info.start_index
                 = fuzzer.dataman.session_info[1].start_index
          /\ fuzzer'.session_info.end_index
                 = fuzzer.dataman.session_info[1].end_index
          /\ fuzzer'.session_info.current_index
                 = fuzzer.dataman.session_info[1].current_index]_vars

\* the first test after the session was taken up again has the index that
\* start() found stored, and no index is left out between two tests run
C37_ResumePoint ==
    /\ \A p \in AfterRestart(fuzzer, "pre_test") :
          (\A q \in AfterRestart(fuzzer, "pre_test") : p <= q)
          => \A c \in CallsOf(fuzzer, "set_session_info") :
                (c < p /\ \A d \in CallsOf(fuzzer, "set_session_info") :
                             d < p => d <= c)
                => fuzzer.log[c].i = fuzzer.log[p].i
    /\ \A p, q \in CallsOf(fuzzer, "pre_test") :
          \A i \in fuzzer.log[p].i .. fuzzer.log[q].i :
             \E t \in CallsOf(fuzzer, "pre_test") : fuzzer.log[t].i = i

\* C37: when a session is loaded from the store, the range given through
\* set_range is ignored in favour of the stored one, and the first test
\* executed after start() has the stored current_index, so that across an
\* interruption and a resume no index of the range is left untested
C37_Resume ==
    /\ C37_ResumePoint
    /\ AfterRestart(fuzzer, "setup") /= {} /\ fuzzer.pc = "done"
           => /\ fuzzer.session_info.start_index = fuzzer.log[1].i
              /\ \A i \in fuzzer.session_info.start_index
                              .. fuzzer.session_info.end_index[1] :
                     \E t \in CallsOf(fuzzer, "pre_test") : fuzzer.log[t].i = i

\* a list of indices that grows strictly, so without duplicates
StrictlyIncreasing(list) == \A i \in 1..Len(list) - 1 : list[i] < list[i + 1]

\* C38: when a range string was parsed and set_last(last) succeeded, the
\* indices that current()/next() enumerate are strictly increasing, without
\* duplicates, and all lie in [0, last]: the strings whose entries overlap,
\* the open-ended 'N-' entry included, were rejected with a KittyException
C38_RangesListOverlap ==
    (field.kind = "RangesList" /\ op = "set_last" /\ ret.exc = "")
        => /\ StrictlyIncreasing(field.list)
           /\ \A i \in 1..Len(field.list) : field.list[i] \in 0..arg

\* C39: after the same set_last and the same next/skip/reset calls, the
\* RangesList made of as_test_list_str() of a StartEndList(s, e), s <= e,
\* has the same current() and the same get_count() as the StartEndList, and
\* no call on it raised
C39_RoundTrip ==
    advanced = 1
        => /\ ret.rl.exc = ""
           /\ current(field.rl).ret = current(field.sel).ret
           /\ get_count(field.rl).ret = get_count(field.sel).ret

\* the number of tests that a list has consumed
Consumed(l) == IF l.kind = "StartEndList" THEN l.current - l.start ELSE l.idx

\* C40: get_progress() never raises, returns the number of tests consumed
\* (0 after construction or reset, one more after each effective next), and
\* equals get_count() exactly when current() is None
C40_GetProgress ==
    op = "get_progress"
        => /\ ret.exc = ""
           /\ current(field).ret.value /= None => ret = Returns(Consumed(field))
           /\ ret = get_count(field).ret <=> current(field).ret.value = None

=============================================================================
